---- MODULE Spec2Model ----
(***************************************************************************)
(* PromptCrafter AI (src/promptcraft_ai_qt.py): the background request     *)
(* orchestration core.  GeminiWorker runs one generation job on a QThread; *)
(* PromptCraftAI_Qt._trigger_gemini_operation admits jobs, the worker's    *)
(* signals are delivered to the UI thread through its event queue, and     *)
(* closeEvent cancels and abandons a running job.                          *)
(*                                                                         *)
(* Operations are modelled at the method boundary: the UI thread runs one  *)
(* handler at a time (a submission, a queued signal delivery, closeEvent), *)
(* each worker thread advances between its reads of shared state           *)
(* (quit_requested, num_variations_for_worker) and its remote calls.       *)
(* Texts are sequences of one-character strings.                           *)
(***************************************************************************)
EXTENDS Integers, Sequences, FiniteSets, TLC

\* ---------------------------------------------------------------- bounds
MaxJobs == 3        \* submissions accepted in a session of several jobs
MaxVars == 2        \* largest num_vars a submission is made with
PairJobs == 2       \* submissions accepted in a short session of several jobs
MaxPieces == 3      \* pieces a response text is put together from
MaxFilled == 2      \* component widgets of a tab not left empty

\* ------------------------------------------------- Python string helpers
UpperChars == <<"A","B","C","D","E","F","G","H","I","J","K","L","M",
                "N","O","P","Q","R","S","T","U","V","W","X","Y","Z">>
LowerChars == <<"a","b","c","d","e","f","g","h","i","j","k","l","m",
                "n","o","p","q","r","s","t","u","v","w","x","y","z">>

LowerChar(c) ==
    IF \E k \in 1..Len(UpperChars) : UpperChars[k] = c
    THEN LowerChars[CHOOSE k \in 1..Len(UpperChars) : UpperChars[k] = c]
    ELSE c

\* str.lower()
Lower(s) == [k \in 1..Len(s) |-> LowerChar(s[k])]

IsSpace(c) == c \in {" ", "\n", "\t"}

SetMin(S) == CHOOSE x \in S : \A y \in S : x <= y
SetMax(S) == CHOOSE x \in S : \A y \in S : y <= x

\* str.lstrip(), str.rstrip(), str.strip()
LStrip(s) ==
    LET solid == {k \in 1..Len(s) : ~IsSpace(s[k])}
    IN  IF solid = {} THEN <<>> ELSE SubSeq(s, SetMin(solid), Len(s))

RStrip(s) ==
    LET solid == {k \in 1..Len(s) : ~IsSpace(s[k])}
    IN  IF solid = {} THEN <<>> ELSE SubSeq(s, 1, SetMax(solid))

Strip(s) == RStrip(LStrip(s))

\* str.startswith(p), str.endswith(p)
StartsWith(s, p) == Len(p) <= Len(s) /\ SubSeq(s, 1, Len(p)) = p
EndsWith(s, p) == Len(p) <= Len(s) /\ SubSeq(s, Len(s) - Len(p) + 1, Len(s)) = p

\* substring test: p in s
Contains(s, p) ==
    \E k \in 0..(Len(s) - Len(p)) : SubSeq(s, k + 1, k + Len(p)) = p

\* ------------------------------------------------------ response sanitizer
unwanted_starts ==
    << <<"O","k","a","y",","," ","h","e","r","e","'","s"," ","t","h","e"," ","p","r","o","m","p","t",":">>,
       <<"O","k","a","y",","," ","h","e","r","e"," ","i","s"," ","t","h","e"," ","p","r","o","m","p","t",":">>,
       <<"H","e","r","e","'","s"," ","t","h","e"," ","p","r","o","m","p","t",":">>,
       <<"H","e","r","e"," ","i","s"," ","t","h","e"," ","p","r","o","m","p","t",":">>,
       <<"S","u","r","e",","," ","h","e","r","e","'","s"," ","a"," ","p","r","o","m","p","t",":">>,
       <<"S","u","r","e",","," ","h","e","r","e"," ","i","s"," ","a"," ","p","r","o","m","p","t",":">>,
       <<"H","e","r","e","'","s"," ","a"," ","p","r","o","m","p","t"," ","f","o","r"," ","y","o","u",":">>,
       <<"H","e","r","e"," ","i","s"," ","a"," ","p","r","o","m","p","t"," ","f","o","r"," ","y","o","u",":">>,
       <<"P","r","o","m","p","t",":">>,
       <<"G","e","n","e","r","a","t","e","d"," ","P","r","o","m","p","t",":">>,
       <<"O","k","a","y",","," ","h","e","r","e","'","s"," ","a"," ","v","a","r","i","a","t","i","o","n",":">>,
       <<"H","e","r","e","'","s"," ","a","n","o","t","h","e","r"," ","v","a","r","i","a","t","i","o","n",":">> >>

unwanted_ends ==
    << <<"L","e","t"," ","m","e"," ","k","n","o","w"," ","i","f"," ","y","o","u","'","d"," ","l","i","k","e"," ","a","n","o","t","h","e","r"," ","o","n","e","!">>,
       <<"H","o","p","e"," ","t","h","i","s"," ","h","e","l","p","s","!">>,
       <<"I","s"," ","t","h","e","r","e"," ","a","n","y","t","h","i","n","g"," ","e","l","s","e"," ","I"," ","c","a","n"," ","h","e","l","p"," ","w","i","t","h","?">> >>

vision_unwanted_starts ==
    << <<"P","r","o","m","p","t",":">>,
       <<"H","e","r","e","'","s"," ","a"," ","p","r","o","m","p","t"," ","b","a","s","e","d"," ","o","n"," ","t","h","e"," ","i","m","a","g","e",":">>,
       <<"I","m","a","g","e"," ","D","e","s","c","r","i","p","t","i","o","n"," ","P","r","o","m","p","t",":">>,
       <<"V","i","d","e","o"," ","P","r","o","m","p","t"," ","I","d","e","a",":">> >>

\* mutant of StripFirstPrefix: after a removal the list is gone through again
RECURSIVE StripFirstPrefixCascading(_, _)
StripFirstPrefixCascading(text, phrases) ==
    LET lowered == Lower(text)
        hits == {k \in 1..Len(phrases) : StartsWith(lowered, Lower(phrases[k]))}
    IN  IF hits = {} THEN text
        ELSE StripFirstPrefixCascading(
                 LStrip(SubSeq(text, Len(phrases[SetMin(hits)]) + 1, Len(text))), phrases)

\* for phrase in phrases: if text.lower().startswith(phrase.lower()):
\*     text = text[len(phrase):].lstrip(); break
StripFirstPrefix(text, phrases) ==
    LET lowered == Lower(text)
        hits == {k \in 1..Len(phrases) : StartsWith(lowered, Lower(phrases[k]))}
    IN  IF hits = {} THEN text
        ELSE LStrip(SubSeq(text, Len(phrases[SetMin(hits)]) + 1, Len(text)))

\* mutant of StripFirstSuffix: the phrase is looked for anywhere in the text
StripFirstSuffixAnywhere(text, phrases) ==
    LET lowered == Lower(text)
        hits == {k \in 1..Len(phrases) : Contains(lowered, Lower(phrases[k]))}
    IN  IF hits = {} THEN text
        ELSE RStrip(SubSeq(text, 1, Len(text) - Len(phrases[SetMin(hits)])))

\* for phrase in phrases: if text.lower().endswith(phrase.lower()):
\*     text = text[:-len(phrase)].rstrip(); break
StripFirstSuffix(text, phrases) ==
    LET lowered == Lower(text)
        hits == {k \in 1..Len(phrases) : EndsWith(lowered, Lower(phrases[k]))}
    IN  IF hits = {} THEN text
        ELSE RStrip(SubSeq(text, 1, Len(text) - Len(phrases[SetMin(hits)])))

\* the text path: response.text.strip(), prefix strip, suffix strip, strip
SanitizeText(raw) ==
    Strip(StripFirstSuffix(StripFirstPrefix(Strip(raw), unwanted_starts), unwanted_ends))

\* the vision path: response.text.strip(), prefix strip
SanitizeVision(raw) ==
    StripFirstPrefix(Strip(raw), vision_unwanted_starts)

\* ------------------------------------------------------------- messages
\* the fixed texts of the worker's result entries and error descriptions
MSG_OP_CANCELLED == <<"O","p","e","r","a","t","i","o","n"," ","c","a","n","c","e","l","l","e","d"," ","b","y"," ","u","s","e","r",".">>
MSG_BATCH_CANCELLED == <<"B","a","t","c","h"," ","o","p","e","r","a","t","i","o","n"," ","c","a","n","c","e","l","l","e","d"," ","b","y"," ","u","s","e","r",".">>
MSG_API_ERROR_HEAD == <<"A","P","I"," ","E","r","r","o","r"," ","(","T","e","x","t"," ","G","e","n"," ","-"," ","V","a","r","i","a","t","i","o","n"," ">>
MSG_API_ERROR_MID == <<")",":"," ">>
MSG_TEXT_NOT_INIT == <<"T","e","x","t"," ","m","o","d","e","l"," ","(","'","m","'",")"," ","i","s"," ","n","o","t"," ","i","n","i","t","i","a","l","i","z","e","d","."," ","C","a","n","n","o","t"," ","g","e","n","e","r","a","t","e"," ","t","e","x","t","-","b","a","s","e","d"," ","p","r","o","m","p","t",".">>
MSG_REMOTE_ERROR == <<"R","e","m","o","t","e","E","r","r","o","r">>
MSG_KEY_INVALID == <<"G","e","m","i","n","i"," ","A","P","I"," ","k","e","y"," ","i","s"," ","n","o","t"," ","c","o","n","f","i","g","u","r","e","d"," ","o","r"," ","i","n","v","a","l","i","d",".">>
MSG_VISION_NOT_INIT == <<"V","i","s","i","o","n"," ","m","o","d","e","l"," ","(","'","m","'",")"," ","i","s"," ","n","o","t"," ","i","n","i","t","i","a","l","i","z","e","d",".">>
MSG_NO_IMAGE == <<"N","o"," ","i","m","a","g","e"," ","p","r","o","v","i","d","e","d"," ","t","o"," ","v","i","s","i","o","n"," ","w","o","r","k","e","r",".">>
MSG_VISION_API_ERROR == <<"V","i","s","i","o","n"," ","A","P","I"," ","E","r","r","o","r"," ","(">>
MSG_UNKNOWN_OP == <<"U","n","k","n","o","w","n"," ","w","o","r","k","e","r"," ","o","p","e","r","a","t","i","o","n"," ","t","y","p","e",":"," ">>
MSG_EMPTY_VISION_HEAD == <<"G","e","m","i","n","i"," ","V","i","s","i","o","n"," ","r","e","t","u","r","n","e","d"," ","a","n"," ","e","m","p","t","y"," ","d","e","s","c","r","i","p","t","i","o","n"," ","f","o","r"," ","t","h","e"," ">>
MSG_EMPTY_VISION_TAIL == <<" ","p","r","o","m","p","t",".">>
MARK_API_ERROR == <<"A","P","I"," ","E","r","r","o","r">>
MARK_OP_CANCELLED == <<"O","p","e","r","a","t","i","o","n"," ","c","a","n","c","e","l","l","e","d">>
NOT_INITIALIZED == <<"n","o","t"," ","i","n","i","t","i","a","l","i","z","e","d">>

Digits == <<"1","2","3","4","5","6","7","8","9">>

\* the texts the remote model returns in this model
RAW_WRAPPED == <<" ","P","r","o","m","p","t",":"," ","a"," ","f","o","x"," "," ","H","o","p","e"," ","t","h","i","s"," ","h","e","l","p","s","!"," ">>
RAW_ONLY_PREFIX == <<"p","r","o","m","p","t",":">>
RawTexts == {RAW_WRAPPED, RAW_ONLY_PREFIX}

\* the pieces response texts are put together from: whitespace, a body, known
\* prefix phrases of the text path (one of them in another case), a known suffix
\* phrase, a prefix phrase known to the vision path only
Pieces == {"sp", "body", "Prompt:", "HERE'S THE PROMPT:", "Hope this helps!", "Video Prompt Idea:"}

PieceText(p) ==
    CASE p = "sp" -> <<" ">>
      [] p = "body" -> <<"a"," ","f","o","x">>
      [] p = "Prompt:" -> <<"P","r","o","m","p","t",":">>
      [] p = "HERE'S THE PROMPT:" -> <<"H","E","R","E","'","S"," ","T","H","E"," ","P","R","O","M","P","T",":">>
      [] p = "Hope this helps!" -> <<"H","o","p","e"," ","t","h","i","s"," ","h","e","l","p","s","!">>
      [] p = "Video Prompt Idea:" -> <<"V","i","d","e","o"," ","P","r","o","m","p","t"," ","I","d","e","a",":">>

RECURSIVE Flatten(_)
Flatten(ps) == IF ps = <<>> THEN <<>> ELSE PieceText(Head(ps)) \o Flatten(Tail(ps))

PieceSeqs == UNION {[1..n -> Pieces] : n \in 0..MaxPieces}

\* what each path's sanitizing makes of each of these raw texts
SanitizedText == [raw \in RawTexts |-> SanitizeText(raw)]
SanitizedVision == [raw \in RawTexts |-> SanitizeVision(raw)]

\* the context labels of the submissions, and their texts
ContextText(c) ==
    CASE c = "Basic Prompt" -> <<"B","a","s","i","c"," ","P","r","o","m","p","t">>
      [] c = "image" -> <<"i","m","a","g","e">>
      [] c = "video" -> <<"v","i","d","e","o">>

\* ------------------------------------------------------------------ state
VARIABLES
    GEMINI_API_KEY_VALID,       \* module globals set once at import
    text_model,
    vision_model,
    num_variations_for_worker,  \* module global written by every submission
    gemini_thread,              \* PromptCraftAI_Qt.gemini_thread: 0 is None, else a job
    gemini_worker,              \* PromptCraftAI_Qt.gemini_worker: 0 is None, else a job
    buttons_enabled,            \* the enabled state _set_ui_for_generation toggles
    output_text_edit,           \* what the output area shows
    workers,                    \* job -> its GeminiWorker and QThread
    ui_events,                  \* queued signal deliveries to the UI thread, in order
    window,                     \* "open", "closing" (closeEvent waits), "closed"
    jobs_created,               \* number of GeminiWorker objects created so far
    session,                    \* the kind of run: "one_job", "series" or "pair"
    sanitizer,                  \* a response text being sanitized on its own (see SanitizerSpec)
    builder,                    \* the widgets a builder reads and history: the latest
                                \* builder run, its outcome and the query it handed over
                                \* (or the latest counter handler and the count it found)
    library,                    \* prompt_library_data and history: the latest library
                                \* operation
    basic_batch_count,          \* PromptCraftAI_Qt.basic_batch_count
    last_cleanup                \* history: the latest cleanup, the handlers owed to its
                                \* job's signals and the handlers run before it

vars == <<GEMINI_API_KEY_VALID, text_model, vision_model, num_variations_for_worker,
          gemini_thread, gemini_worker, buttons_enabled, output_text_edit,
          workers, ui_events, window, jobs_created, session, last_cleanup, sanitizer, builder, library, basic_batch_count>>

Jobs == 1..MaxJobs

\* one entry of a result list, standing for the string EntryText gives
TextEntry(t) == [kind |-> "text", var |-> 0, text |-> t, ctx |-> ""]
ApiErrorEntry(v, cause) == [kind |-> cause, var |-> v, text |-> <<>>, ctx |-> ""]
OpCancelledEntry == [kind |-> "op_cancelled", var |-> 0, text |-> <<>>, ctx |-> ""]
BatchCancelledEntry == [kind |-> "batch_cancelled", var |-> 0, text |-> <<>>, ctx |-> ""]
ErrorEntry(k, ctx) == [kind |-> k, var |-> 0, text |-> <<>>, ctx |-> ctx]

EntryText(e) ==
    CASE e.kind = "text" -> e.text
      [] e.kind = "api_error_remote" ->
            MSG_API_ERROR_HEAD \o <<Digits[e.var]>> \o MSG_API_ERROR_MID \o MSG_REMOTE_ERROR
      [] e.kind = "api_error_not_initialized" ->
            MSG_API_ERROR_HEAD \o <<Digits[e.var]>> \o MSG_API_ERROR_MID \o MSG_TEXT_NOT_INIT
      [] e.kind = "op_cancelled" -> MSG_OP_CANCELLED
      [] e.kind = "batch_cancelled" -> MSG_BATCH_CANCELLED
      [] e.kind = "empty_vision" -> MSG_EMPTY_VISION_HEAD \o ContextText(e.ctx) \o MSG_EMPTY_VISION_TAIL
      [] e.kind = "key_invalid" -> MSG_KEY_INVALID
      [] e.kind = "vision_not_initialized" -> MSG_VISION_NOT_INIT
      [] e.kind = "no_image" -> MSG_NO_IMAGE
      [] e.kind = "vision_api_error" ->
            MSG_VISION_API_ERROR \o ContextText(e.ctx) \o MSG_API_ERROR_MID \o MSG_REMOTE_ERROR
      [] e.kind = "unknown_op" -> MSG_UNKNOWN_OP

\* GeminiWorker.__init__ together with the QThread it is moved to.
\* pc is the thread's position: "started" (run not entered), "iter", "core", "call",
\* "vision_pre", "vision_build", "vision_call", "exec" (run returned, event loop),
\* "finished", "terminated"; "none" before the job exists, "deleted" after cleanup.
\* emitted, calls, iter_flag, handled are history: the signals emitted in order,
\* the remote calls returned (index, what came back, flag value at return, the
\* variation modifier of the payload), the
\* flag value read at the start of the current unit of work, the handlers run.
NoWorker ==
    [query |-> <<>>, context |-> "", num_variations |-> 0, operation_type |-> "none",
     pil_image |-> FALSE, quit_requested |-> FALSE, pc |-> "none", quit |-> FALSE,
     n |-> 0, i |-> 0, all_results |-> <<>>, payload_mod |-> 0,
     emitted |-> <<>>, calls |-> <<>>, iter_flag |-> FALSE, handled |-> <<>>]

GeminiWorker(query, context, num_variations, operation_type, pil_image) ==
    [NoWorker EXCEPT !.query = query, !.context = context,
                     !.num_variations = num_variations,
                     !.operation_type = operation_type, !.pil_image = pil_image,
                     !.quit_requested = FALSE, !.pc = "started"]

DeletedWorker == [NoWorker EXCEPT !.pc = "deleted"]

\* QThread.isRunning()
isRunning(j) ==
    workers[j].pc \notin {"none", "finished", "terminated", "deleted"}

\* the worker's run() is executing (between entry and return)
InRun(j) ==
    workers[j].pc \in {"iter", "core", "call", "vision_pre", "vision_build", "vision_call"}

Event(sig, j, arg) == [sig |-> sig, job |-> j, arg |-> arg]

\* mutant of PostEvent: the delivery jumps the queue
PostEventAtFront(q, e) == <<e>> \o q

\* a queued signal delivery is appended to the receiving thread's event queue
PostEvent(q, e) == Append(q, e)

RECURSIVE PostAll(_, _)
PostAll(q, es) == IF es = <<>> THEN q ELSE PostAll(PostEvent(q, Head(es)), Tail(es))

TypeOK ==
    /\ GEMINI_API_KEY_VALID \in BOOLEAN
    /\ text_model \in BOOLEAN
    /\ vision_model \in BOOLEAN
    /\ num_variations_for_worker \in 1..MaxVars
    /\ gemini_thread \in {0} \cup Jobs
    /\ gemini_worker \in {0} \cup Jobs
    /\ buttons_enabled \in BOOLEAN
    /\ window \in {"open", "closing", "closed"}
    /\ jobs_created \in 0..MaxJobs
    /\ session \in {"one_job", "series", "pair"}

\* ------------------------------------------------------------------- Init
\* module import (lines 21-73): the key is valid iff at least one model initialized;
\* PromptCraftAI_Qt.__init__ (lines 378-385)
ProgramInit(sessions) ==
    /\ text_model \in BOOLEAN
    /\ vision_model \in BOOLEAN
    /\ GEMINI_API_KEY_VALID = (text_model \/ vision_model)
    /\ num_variations_for_worker = 1
    /\ gemini_thread = 0
    /\ gemini_worker = 0
    /\ buttons_enabled = TRUE
    /\ output_text_edit = [kind |-> "empty", parts |-> <<>>]
    /\ workers = [j \in Jobs |-> NoWorker]
    /\ ui_events = <<>>
    /\ window = "open"
    /\ jobs_created = 0
    /\ session \in sessions
    /\ last_cleanup = [job |-> 0, owed |-> <<>>, handled |-> <<>>]

\* no response text is being sanitized on its own
NoSanitizing ==
    [pieces |-> <<>>, raw |-> <<>>, path |-> "none", applied |-> 0,
     once |-> <<>>, twice |-> <<>>]

\* no builder has run; the widgets hold what the user left in them
NoBuilder(components, loaded, mod) ==
    [components |-> components, loaded |-> loaded, mod |-> mod,
     uploaded_image_pil |-> FALSE, img_to_video_radio |-> FALSE,
     name |-> "none", outcome |-> "none", num_vars |-> 0, query |-> <<>>]

\* the library with the entries data and no operation made on it
Library(data) ==
    [prompt_library_data |-> data,
     last |-> [op |-> "none", name |-> <<>>, prompt |-> <<>>]]

InitOf(sessions) ==
    /\ ProgramInit(sessions)
    /\ sanitizer = NoSanitizing
    /\ builder = NoBuilder(<<>>, <<>>, <<>>)
    /\ library = Library(<<>>)
    /\ basic_batch_count = 1

Init == InitOf({"one_job", "series"})

\* ---------------------------------------------------------- GeminiWorker
\* signal emissions of a worker; each is a queued delivery to the UI thread
ResultReady(j, results) == Event("result_ready", j, results)
ErrorOccurred(j, entry) == Event("error_occurred", j, <<entry>>)
Finished(j) == Event("worker_finished", j, <<>>)

\* a step of a worker: its record afterwards and the signals it emitted, in order
Step(w, ev) == [w |-> w, ev |-> ev]

\* run() returns after emitting sigs; the thread falls into its event loop
Return(w, sigs) ==
    Step([w EXCEPT !.pc = "exec", !.emitted = @ \o sigs], sigs)

\* run (lines 360-365), with the loop bound of run_text_generation (line 311)
run(w, j) ==
    IF ~GEMINI_API_KEY_VALID
    THEN Return(w, <<ErrorOccurred(j, ErrorEntry("key_invalid", "")), Finished(j)>>)
    ELSE IF w.quit_requested
    THEN Return(w, <<Finished(j)>>)
    ELSE IF w.operation_type = "text"
    THEN Step([w EXCEPT !.pc = "iter", !.n = num_variations_for_worker,
                        !.i = 0, !.all_results = <<>>], <<>>)
    ELSE IF w.operation_type = "vision"
    THEN Step([w EXCEPT !.pc = "vision_pre"], <<>>)
    ELSE Return(w, <<ErrorOccurred(j, ErrorEntry("unknown_op", "")), Finished(j)>>)

\* run_text_generation, lines 315-316
EmitTextResults(w, j) ==
    Return(w, <<ResultReady(j, w.all_results), Finished(j)>>)

\* mutant of AppendResult: the result is put at the front of the list
AppendResultAtFront(w, j, entry) ==
    LET w1 == [w EXCEPT !.all_results = <<entry>> \o @, !.i = @ + 1]
    IN  IF w1.i < w1.n THEN Step([w1 EXCEPT !.pc = "iter"], <<>>)
        ELSE EmitTextResults(w1, j)

\* all_results.append(result) and the next turn of the loop (lines 311, 314)
AppendResult(w, j, entry) ==
    LET w1 == [w EXCEPT !.all_results = Append(@, entry), !.i = @ + 1]
    IN  IF w1.i < w1.n THEN Step([w1 EXCEPT !.pc = "iter"], <<>>)
        ELSE EmitTextResults(w1, j)

\* the cancellation check at the start of an iteration (line 312)
IterationCheck(w, j) ==
    LET w0 == [w EXCEPT !.iter_flag = w.quit_requested]
    IN  IF w.quit_requested
        THEN EmitTextResults([w0 EXCEPT !.all_results = Append(@, BatchCancelledEntry)], j)
        ELSE Step([w0 EXCEPT !.pc = "core"], <<>>)

\* the variation modifier (lines 275-283): 0 is none, k is variation_prompts[k-1]
VariationModifier(variation_idx) ==
    IF num_variations_for_worker > 1 /\ variation_idx > 0
    THEN (variation_idx % 4) + 1
    ELSE 0

\* mutant of TextCallRaised: the exception ends the job with error_occurred
TextCallRaisedFatal(w, j, cause) ==
    Return(w, <<ErrorOccurred(j, ApiErrorEntry(w.i + 1, cause)), Finished(j)>>)

\* the except clause of _generate_single_prompt_core (lines 303-306)
TextCallRaised(w, j, cause) ==
    AppendResult(w, j, ApiErrorEntry(w.i + 1, cause))

\* _generate_single_prompt_core up to the remote call (lines 262-288)
GenerateSinglePromptCore(w, j) ==
    IF w.quit_requested
    THEN AppendResult(w, j, OpCancelledEntry)
    ELSE LET w1 == [w EXCEPT !.payload_mod = VariationModifier(w.i)]
         IN  IF ~text_model
             THEN TextCallRaised(w1, j, "api_error_not_initialized")
             ELSE Step([w1 EXCEPT !.pc = "call"], <<>>)

CallRecord(w, raised, raw) ==
    [idx |-> w.i, raised |-> raised, raw |-> raw, late |-> w.quit_requested,
     payload_mod |-> w.payload_mod]

\* the remote text call returned raw (lines 288-302)
TextCallReturned(w, j, raw) ==
    AppendResult([w EXCEPT !.calls = Append(@, CallRecord(w, FALSE, raw))],
                 j, TextEntry(SanitizedText[raw]))

\* the remote text call raised (line 288, then 303-306)
TextCallFailed(w, j) ==
    TextCallRaised([w EXCEPT !.calls = Append(@, CallRecord(w, TRUE, <<>>))],
                   j, "api_error_remote")

\* mutant of VisionPreconditions: the image is not checked
VisionPreconditionsNoImageCheck(w, j) ==
    IF w.quit_requested
    THEN Return(w, <<ErrorOccurred(j, OpCancelledEntry), Finished(j)>>)
    ELSE IF ~vision_model
    THEN Return(w, <<ErrorOccurred(j, ErrorEntry("vision_not_initialized", "")),
                     Finished(j)>>)
    ELSE Step([w EXCEPT !.pc = "vision_build"], <<>>)

\* run_vision_generation, lines 319-321
VisionPreconditions(w, j) ==
    IF w.quit_requested
    THEN Return(w, <<ErrorOccurred(j, OpCancelledEntry), Finished(j)>>)
    ELSE IF ~vision_model
    THEN Return(w, <<ErrorOccurred(j, ErrorEntry("vision_not_initialized", "")),
                     Finished(j)>>)
    ELSE IF ~w.pil_image
    THEN Return(w, <<ErrorOccurred(j, ErrorEntry("no_image", "")), Finished(j)>>)
    ELSE Step([w EXCEPT !.pc = "vision_build"], <<>>)

\* mutant of VisionIssueCall: the call is issued without reading the flag
VisionIssueCallUnchecked(w, j) ==
    Step([w EXCEPT !.iter_flag = w.quit_requested, !.pc = "vision_call"], <<>>)

\* run_vision_generation, lines 322-347: the return at line 346 is inside the try,
\* so the finally clause (line 358) emits finished once more
VisionIssueCall(w, j) ==
    LET w0 == [w EXCEPT !.iter_flag = w.quit_requested]
    IN  IF w.quit_requested
        THEN Return(w0, <<ErrorOccurred(j, OpCancelledEntry), Finished(j), Finished(j)>>)
        ELSE Step([w0 EXCEPT !.pc = "vision_call"], <<>>)

\* mutant of VisionCallReturned: the sanitized text is delivered as it is
VisionCallReturnedAsIs(w, j, raw) ==
    Return([w EXCEPT !.calls = Append(@, CallRecord(w, FALSE, raw))],
           <<ResultReady(j, <<TextEntry(SanitizedVision[raw])>>), Finished(j)>>)

\* run_vision_generation, lines 348-352 and 357-358
VisionCallReturned(w, j, raw) ==
    LET generated_text == SanitizedVision[raw]
        entry == IF generated_text # <<>> THEN TextEntry(generated_text)
                 ELSE ErrorEntry("empty_vision", w.context)
    IN  Return([w EXCEPT !.calls = Append(@, CallRecord(w, FALSE, raw))],
               <<ResultReady(j, <<entry>>), Finished(j)>>)

\* mutant of VisionCallFailed: the failure becomes an entry of a result list
VisionCallFailedDowngraded(w, j) ==
    Return([w EXCEPT !.calls = Append(@, CallRecord(w, TRUE, <<>>))],
           <<ResultReady(j, <<ErrorEntry("vision_api_error", w.context)>>), Finished(j)>>)

\* run_vision_generation, lines 353-358
VisionCallFailed(w, j) ==
    Return([w EXCEPT !.calls = Append(@, CallRecord(w, TRUE, <<>>))],
           <<ErrorOccurred(j, ErrorEntry("vision_api_error", w.context)), Finished(j)>>)

\* a worker thread takes the step s
WorkerStep(j, s) ==
    /\ workers' = [workers EXCEPT ![j] = s.w]
    /\ ui_events' = PostAll(ui_events, s.ev)
    /\ UNCHANGED <<GEMINI_API_KEY_VALID, text_model, vision_model,
                   num_variations_for_worker, gemini_thread, gemini_worker,
                   buttons_enabled, output_text_edit, window, jobs_created, session, last_cleanup, sanitizer, builder, library, basic_batch_count>>

Alive == window # "closed"

WorkerRun(j) ==
    /\ Alive /\ workers[j].pc = "started"
    /\ WorkerStep(j, run(workers[j], j))

WorkerIterationCheck(j) ==
    /\ Alive /\ workers[j].pc = "iter"
    /\ WorkerStep(j, IterationCheck(workers[j], j))

WorkerCore(j) ==
    /\ Alive /\ workers[j].pc = "core"
    /\ WorkerStep(j, GenerateSinglePromptCore(workers[j], j))

WorkerTextCallReturns(j) ==
    /\ Alive /\ workers[j].pc = "call"
    /\ \E raw \in RawTexts : WorkerStep(j, TextCallReturned(workers[j], j, raw))

WorkerTextCallRaises(j) ==
    /\ Alive /\ workers[j].pc = "call"
    /\ WorkerStep(j, TextCallFailed(workers[j], j))

WorkerVisionPreconditions(j) ==
    /\ Alive /\ workers[j].pc = "vision_pre"
    /\ WorkerStep(j, VisionPreconditions(workers[j], j))

WorkerVisionIssueCall(j) ==
    /\ Alive /\ workers[j].pc = "vision_build"
    /\ WorkerStep(j, VisionIssueCall(workers[j], j))

WorkerVisionCallReturns(j) ==
    /\ Alive /\ workers[j].pc = "vision_call"
    /\ \E raw \in RawTexts : WorkerStep(j, VisionCallReturned(workers[j], j, raw))

WorkerVisionCallRaises(j) ==
    /\ Alive /\ workers[j].pc = "vision_call"
    /\ WorkerStep(j, VisionCallFailed(workers[j], j))

\* the thread's event loop exits once quit() was called; QThread.finished is
\* emitted (connected to _on_thread_finished_cleanup, line 1197)
ThreadFinishes(j) ==
    /\ Alive /\ workers[j].pc = "exec" /\ workers[j].quit
    /\ WorkerStep(j, Step([workers[j] EXCEPT !.pc = "finished"],
                          <<Event("thread_finished", j, <<>>)>>))

\* ------------------------------------------------------- PromptCraftAI_Qt
\* the submissions made in this model: [num_vars, op_type, pil_image, context]
JobSpec(n, op, img, ctx) == [num_vars |-> n, op_type |-> op, pil_image |-> img, context |-> ctx]

JobSpecs ==
    {JobSpec(n, "text", FALSE, "Basic Prompt") : n \in 1..MaxVars}
    \cup {JobSpec(1, "vision", img, ctx) : img \in BOOLEAN, ctx \in {"image", "video"}}
    \cup {JobSpec(1, "other", FALSE, "Basic Prompt")}

SeriesJobSpecs ==
    {JobSpec(1, "text", FALSE, "Basic Prompt"), JobSpec(1, "vision", TRUE, "image")}

\* a run of the model is one session of the program: either one accepted submission
\* drawn from all of JobSpecs, or up to MaxJobs ("series") or PairJobs ("pair")
\* accepted submissions drawn from SeriesJobSpecs; submissions made while busy
\* are not counted
SessionJobSpecs == IF session = "one_job" THEN JobSpecs ELSE SeriesJobSpecs
SessionJobs ==
    IF session = "one_job" THEN 1 ELSE IF session = "pair" THEN PairJobs ELSE MaxJobs

\* ------------------------------------------------------- request builders
\* A query is the sequence of the pieces it is put together from, standing for
\* their concatenation: text written in the code (lit) or the trimmed content of
\* a widget (val).
Lit(s) == [lit |-> s, val |-> <<>>]
Val(v) == [lit |-> "", val |-> v]

\* the three backquotes that open and close a quoted prompt
FENCE == Lit("[3 backquotes]")

\* "\n\n".join(parts), each part being a sequence of pieces (lines 1274, 1303)
RECURSIVE JoinParts(_)
JoinParts(parts) ==
    IF parts = <<>> THEN <<>>
    ELSE IF Len(parts) = 1 THEN parts[1]
    ELSE parts[1] \o <<Lit("\n\n")>> \o JoinParts(Tail(parts))

\* what a widget may hold: nothing, whitespace only, or a text with whitespace
\* around it
TEXT_CAT == <<"c", "a", "t">>
FieldTexts == {<<>>, <<" ">>, <<" ">> \o TEXT_CAT \o <<" ">>}

\* the keys of components in _trigger_gemini_advanced_image_generation (lines 1230-1239)
ImageLabels ==
    <<"Core Idea/Subject", "Primary Artistic Style", "Secondary Style/Modifier",
      "Character Details", "Scene & Environment", "Artistic Influence",
      "Camera & Composition", "Lighting", "Color Palette",
      "Negative Prompts (Elements to AVOID)">>

\* field_key.replace('_', ' ').title() of the keys of video_fields_qt, in the
\* order the fields are created (lines 736-770, 1286)
VideoLabels ==
    <<"Core Concept Story", "Video Style", "Scene Setting", "Key Actions Events",
      "Characters Subjects", "Shot Types Camera Movement", "Pacing Duration",
      "Lighting Atmosphere", "Audio Cues", "Output Format Feeling">>

Fields == 1..Len(ImageLabels)

\* the contents of the widgets of a tab with at most MaxFilled of the component
\* widgets not left empty
Forms ==
    {f \in [Fields -> FieldTexts] : Cardinality({k \in Fields : f[k] # <<>>}) <= MaxFilled}

\* the directives that close a query (lines 1222, 1273, 1302)
BASIC_DIRECTIVE == "Ensure the output is ONLY the generated prompt string."
IMAGE_DIRECTIVE ==
    "\nOutput ONLY the image prompt string, ensuring all provided elements are considered."
VIDEO_DIRECTIVE == "\nOutput ONLY the video prompt string."

\* what a builder has when it is through with its inputs: the request it put
\* together, or nothing because it reported "Input Missing" and returned
Request(pieces) == [missing |-> FALSE, pieces |-> pieces]
InputMissing == [missing |-> TRUE, pieces |-> <<>>]

\* mutant of BasicRequestDetails: the core idea is looked at before the edit
\* instruction
BasicRequestDetailsIdeaFirst(idea, loaded_prompt, mod_instructions) ==
    IF loaded_prompt # <<>>
    THEN Request(<<Lit("Base existing prompt to work with:\n"), FENCE, Lit("\n"), Val(loaded_prompt),
                   Lit("\n"), FENCE, Lit("\n")>>
                 \o (IF idea # <<>>
                     THEN <<Lit("Refine/combine with core idea: "), Val(idea), Lit("\n")>>
                     ELSE IF mod_instructions # <<>>
                     THEN <<Lit("Refine or modify according to: "), Val(mod_instructions),
                            Lit("\n")>>
                     ELSE <<Lit("Refine or generate variations.\n")>>))
    ELSE IF idea # <<>>
    THEN Request(<<Lit("Generate from core idea: "), Val(idea), Lit("\n")>>)
    ELSE InputMissing

\* user_request_details of _trigger_gemini_basic_generation before the directive
\* (lines 1214-1221)
BasicRequestDetails(idea, loaded_prompt, mod_instructions) ==
    IF loaded_prompt # <<>>
    THEN Request(<<Lit("Base existing prompt to work with:\n"), FENCE, Lit("\n"), Val(loaded_prompt),
                   Lit("\n"), FENCE, Lit("\n")>>
                 \o (IF mod_instructions # <<>>
                     THEN <<Lit("Refine or modify according to: "), Val(mod_instructions),
                            Lit("\n")>>
                     ELSE IF idea # <<>>
                     THEN <<Lit("Refine/combine with core idea: "), Val(idea), Lit("\n")>>
                     ELSE <<Lit("Refine or generate variations.\n")>>))
    ELSE IF idea # <<>>
    THEN Request(<<Lit("Generate from core idea: "), Val(idea), Lit("\n")>>)
    ELSE InputMissing

\* the query of _trigger_gemini_basic_generation (line 1222)
BasicUserRequest(details) == details \o <<Lit(BASIC_DIRECTIVE)>>

\* active_components (line 1256) / components (lines 1281-1286): the fields whose
\* trimmed content is not empty, in the order of the dict
ActiveComponents(components) ==
    SelectSeq([k \in Fields |-> k], LAMBDA k : Strip(components[k]) # <<>>)

\* the "  - key: value" parts (lines 1264-1265, 1297)
ComponentParts(labels, components) ==
    LET active == ActiveComponents(components) IN
    [k \in 1..Len(active) |->
        <<Lit("  - "), Lit(labels[active[k]]), Lit(": "), Val(Strip(components[active[k]]))>>]

\* user_request_details_parts of _trigger_gemini_advanced_image_generation when
\* the test of line 1267 is reached (lines 1243-1265)
ImageRequestParts(components, loaded_prompt, mod_instructions) ==
    (IF loaded_prompt # <<>>
     THEN <<<<Lit("Base existing image prompt:\n"), FENCE, Lit("\n"), Val(loaded_prompt), Lit("\n"), FENCE>>>>
          \o (IF mod_instructions # <<>>
              THEN <<<<Lit("Modify with: "), Val(mod_instructions)>>>>
              ELSE <<>>)
          \o <<<<Lit("Integrate or override with the specific components listed below. "),
                   Lit("If a 'Secondary Style/Modifier' is provided, blend it with the "),
                   Lit("'Primary Artistic Style' or use it to further describe the overall aesthetic.")>>>>
     ELSE <<>>)
    \o (IF ActiveComponents(components) # <<>>
        THEN <<<<Lit(IF loaded_prompt = <<>>
                     THEN "Synthesize a detailed image prompt from the following components:"
                     ELSE "\nSpecific Image Components (to integrate or override):")>>>>
             \o ComponentParts(ImageLabels, components)
        ELSE <<>>)

\* user_request_details_parts of _trigger_gemini_video_generation when the test
\* of line 1298 is reached (lines 1289-1297)
VideoRequestParts(components, loaded_prompt, mod_instructions) ==
    (IF loaded_prompt # <<>>
     THEN <<<<Lit("Base existing video prompt:\n"), FENCE, Lit("\n"), Val(loaded_prompt), Lit("\n"), FENCE>>>>
          \o (IF mod_instructions # <<>>
              THEN <<<<Lit("Modify with: "), Val(mod_instructions)>>>>
              ELSE <<>>)
          \o <<<<Lit("Integrate/override with specific video components below if provided.")>>>>
     ELSE <<>>)
    \o (IF ActiveComponents(components) # <<>>
        THEN <<<<Lit(IF loaded_prompt = <<>>
                     THEN "Synthesize a video prompt from these components:"
                     ELSE "\nSpecific Video Components:")>>>>
             \o ComponentParts(VideoLabels, components)
        ELSE <<>>)

\* mutant of NothingToRefine: an empty request is taken for a loaded prompt
NothingToRefineIgnored(components, loaded_prompt, mod_instructions) == FALSE

\* the test of lines 1268 and 1299 that sends a builder without any part to its
\* "Input Missing" report
NothingToRefine(components, loaded_prompt, mod_instructions) ==
    ~(loaded_prompt # <<>> /\ mod_instructions = <<>> /\ ActiveComponents(components) = <<>>)

\* lines 1267-1271 and 1298-1301: the parts the builder goes on with
ValidatedParts(parts, refine_text, components, loaded_prompt, mod_instructions) ==
    IF parts # <<>> THEN Request(parts)
    ELSE IF NothingToRefine(components, loaded_prompt, mod_instructions)
    THEN InputMissing
    ELSE Request(<<<<Lit(refine_text), FENCE, Lit("\n"), Val(loaded_prompt), Lit("\n"), FENCE>>>>)

\* mutant of FullUserRequest: the directive is put in front of the other parts
FullUserRequestDirectiveFirst(parts, directive) ==
    JoinParts(<<<<Lit(directive)>>>> \o parts)

\* full_user_request (lines 1273-1274, 1302-1303)
FullUserRequest(parts, directive) ==
    JoinParts(Append(parts, <<Lit(directive)>>))

\* the query of the submissions made without a builder
QUERY == <<Lit("q")>>

\* the busy test of _trigger_gemini_operation (lines 1168-1169)
Busy ==
    gemini_thread # 0 /\ isRunning(gemini_thread)

\* _set_ui_for_generation (lines 1016-1033)
SetUiForGeneration(is_generating) == ~is_generating

\* _trigger_gemini_operation (lines 1165-1200)
\* is_new_batch_start is the attribute's value at the call: the basic builder sets
\* it right before (line 1223), and the only calls with num_vars > 1 are its own
TriggerGeminiOperation(query, context, num_vars, op_type, pil_image, is_new_batch_start) ==
    /\ window = "open"
    /\ num_variations_for_worker' = num_vars
    /\ IF Busy
       THEN UNCHANGED <<gemini_thread, gemini_worker, buttons_enabled, output_text_edit,
                        workers, jobs_created>>
       ELSE /\ jobs_created < SessionJobs
            /\ output_text_edit' =
                 IF num_vars = 1 \/ is_new_batch_start
                 THEN [kind |-> "empty", parts |-> <<>>]
                 ELSE output_text_edit
            /\ buttons_enabled' = SetUiForGeneration(TRUE)
            /\ jobs_created' = jobs_created + 1
            /\ gemini_thread' = jobs_created'
            /\ gemini_worker' = jobs_created'
            /\ workers' = [workers EXCEPT ![jobs_created'] =
                              GeminiWorker(query, context, num_vars, op_type, pil_image)]
    /\ UNCHANGED <<GEMINI_API_KEY_VALID, text_model, vision_model, ui_events, window,
                   session, last_cleanup, sanitizer, library, basic_batch_count>>

Submit ==
    /\ \E s \in SessionJobSpecs :
          TriggerGeminiOperation(QUERY, s.context, s.num_vars, s.op_type, s.pil_image,
                                 s.context = "Basic Prompt")
    /\ UNCHANGED builder

\* a builder returns after its "Input Missing" report
ReportInputMissing(name) ==
    /\ builder' = [builder EXCEPT !.name = name, !.outcome = "input_missing",
                                  !.num_vars = 0, !.query = <<>>]
    /\ UNCHANGED <<GEMINI_API_KEY_VALID, text_model, vision_model, gemini_thread,
                   gemini_worker, buttons_enabled, output_text_edit, workers, ui_events,
                   window, jobs_created, session, last_cleanup, sanitizer, library, basic_batch_count>>

\* a builder hands its query to _trigger_gemini_operation
HandOver(name, query, context, num_vars) ==
    /\ builder' = [builder EXCEPT !.name = name, !.outcome = "triggered",
                                  !.num_vars = num_vars, !.query = query]
    /\ TriggerGeminiOperation(query, context, num_vars, "text", FALSE, name = "basic")

\* The builders are the handlers of the generate buttons, which
\* _set_ui_for_generation disables while a job is being generated (lines 1017-1027).

\* _trigger_gemini_basic_generation (lines 1209-1224)
TriggerGeminiBasicGeneration ==
    /\ window = "open" /\ buttons_enabled
    /\ LET num_vars == basic_batch_count
           details == BasicRequestDetails(Strip(builder.components[1]),
                                          Strip(builder.loaded), Strip(builder.mod))
       IN  IF details.missing
           THEN ReportInputMissing("basic") /\ UNCHANGED num_variations_for_worker
           ELSE HandOver("basic", BasicUserRequest(details.pieces), "Basic Prompt", num_vars)

\* _trigger_gemini_advanced_image_generation (lines 1227-1276)
TriggerGeminiAdvancedImageGeneration ==
    /\ window = "open" /\ buttons_enabled
    /\ LET loaded_prompt == Strip(builder.loaded)
           mod_instructions == Strip(builder.mod)
           parts == ValidatedParts(
                        ImageRequestParts(builder.components, loaded_prompt, mod_instructions),
                        "Refine or enhance this loaded image prompt:\n",
                        builder.components, loaded_prompt, mod_instructions)
       IN  IF parts.missing
           THEN ReportInputMissing("advanced_image") /\ num_variations_for_worker' = 1
           ELSE HandOver("advanced_image", FullUserRequest(parts.pieces, IMAGE_DIRECTIVE),
                         "Advanced Image Prompt", 1)

\* _trigger_gemini_video_generation (lines 1278-1304)
TriggerGeminiVideoGeneration ==
    /\ window = "open" /\ buttons_enabled
    /\ LET loaded_prompt == Strip(builder.loaded)
           mod_instructions == Strip(builder.mod)
           parts == ValidatedParts(
                        VideoRequestParts(builder.components, loaded_prompt, mod_instructions),
                        "Refine/enhance this loaded video prompt:\n",
                        builder.components, loaded_prompt, mod_instructions)
       IN  IF parts.missing
           THEN ReportInputMissing("video") /\ num_variations_for_worker' = 1
           ELSE HandOver("video", FullUserRequest(parts.pieces, VIDEO_DIRECTIVE),
                         "Detailed Video Prompt", 1)

\* the test of _handle_gemini_results for a failed entry (lines 1329, 1340)
IsFailureText(text) ==
    Contains(text, MARK_API_ERROR) \/ Contains(text, MARK_OP_CANCELLED)

\* what _handle_gemini_results puts in the output area (lines 1319-1343)
RenderResults(results) ==
    IF results = <<>> THEN [kind |-> "no_results", parts |-> <<>>]
    ELSE IF num_variations_for_worker > 1
    THEN [kind |-> "batch",
          parts |-> [k \in 1..Len(results) |->
                        [failed |-> IsFailureText(EntryText(results[k])),
                         entry |-> results[k]]]]
    ELSE [kind |-> "single",
          parts |-> <<[failed |-> IsFailureText(EntryText(results[1])),
                       entry |-> results[1]]>>]

\* the UI thread's event loop takes the next queued delivery
NextEvent == Head(ui_events)

Delivering(sig) ==
    /\ window = "open"
    /\ ui_events # <<>>
    /\ NextEvent.sig = sig
    /\ ui_events' = Tail(ui_events)

\* _handle_gemini_results (lines 1317-1344)
HandleGeminiResults ==
    /\ Delivering("result_ready")
    /\ output_text_edit' = RenderResults(NextEvent.arg)
    /\ workers' = [workers EXCEPT ![NextEvent.job].handled = Append(@, "result")]
    /\ UNCHANGED <<GEMINI_API_KEY_VALID, text_model, vision_model,
                   num_variations_for_worker, gemini_thread, gemini_worker,
                   buttons_enabled, window, jobs_created, session, last_cleanup, sanitizer, builder, library, basic_batch_count>>

\* _handle_gemini_error (lines 1346-1350)
HandleGeminiError ==
    /\ Delivering("error_occurred")
    /\ output_text_edit' = [kind |-> "error", parts |-> <<[failed |-> TRUE,
                                                         entry |-> NextEvent.arg[1]]>>]
    /\ workers' = [workers EXCEPT ![NextEvent.job].handled = Append(@, "error")]
    /\ UNCHANGED <<GEMINI_API_KEY_VALID, text_model, vision_model,
                   num_variations_for_worker, gemini_thread, gemini_worker,
                   buttons_enabled, window, jobs_created, session, last_cleanup, sanitizer, builder, library, basic_batch_count>>

\* mutant of ThreadQuit: worker.finished is delivered but the thread is not told to quit
ThreadQuitLost ==
    /\ Delivering("worker_finished")
    /\ UNCHANGED <<GEMINI_API_KEY_VALID, text_model, vision_model,
                   num_variations_for_worker, gemini_thread, gemini_worker,
                   buttons_enabled, output_text_edit, workers, window, jobs_created,
                   session, last_cleanup, sanitizer, builder, library, basic_batch_count>>

\* worker.finished -> gemini_thread.quit (line 1186), run on the UI thread, where
\* the QThread object lives
ThreadQuit ==
    /\ Delivering("worker_finished")
    /\ workers' = [workers EXCEPT ![NextEvent.job].quit =
                      IF isRunning(NextEvent.job) THEN TRUE ELSE @]
    /\ UNCHANGED <<GEMINI_API_KEY_VALID, text_model, vision_model,
                   num_variations_for_worker, gemini_thread, gemini_worker,
                   buttons_enabled, output_text_edit, window, jobs_created, session, last_cleanup, sanitizer, builder, library, basic_batch_count>>

\* the handlers the UI thread owes to the emitted signals, in order
RECURSIVE HandlersOf(_)
HandlersOf(emitted) ==
    IF emitted = <<>> THEN <<>>
    ELSE LET rest == HandlersOf(Tail(emitted))
         IN  IF Head(emitted).sig = "result_ready" THEN <<"result">> \o rest
             ELSE IF Head(emitted).sig = "error_occurred" THEN <<"error">> \o rest
             ELSE rest

\* the worker and thread objects after deleteLater (lines 1195-1196)
Deleted(w) == DeletedWorker

\* _on_thread_finished_cleanup (lines 1202-1206)
OnThreadFinishedCleanup ==
    /\ Delivering("thread_finished")
    /\ gemini_thread' = 0
    /\ gemini_worker' = 0
    /\ buttons_enabled' = SetUiForGeneration(FALSE)
    /\ workers' = [workers EXCEPT ![NextEvent.job] = Deleted(@)]
    /\ last_cleanup' = [job |-> NextEvent.job,
                        owed |-> HandlersOf(workers[NextEvent.job].emitted),
                        handled |-> workers[NextEvent.job].handled]
    /\ UNCHANGED <<GEMINI_API_KEY_VALID, text_model, vision_model,
                   num_variations_for_worker, output_text_edit, window, jobs_created,
                   session, sanitizer, builder, library, basic_batch_count>>

\* closeEvent up to the wait (lines 1151-1157), or all of it when nothing runs
CloseEvent ==
    /\ window = "open"
    /\ IF Busy
       THEN /\ workers' = [j \in Jobs |->
                 LET w1 == IF j = gemini_worker
                           THEN [workers[j] EXCEPT !.quit_requested = TRUE]
                           ELSE workers[j]
                 IN  IF j = gemini_thread THEN [w1 EXCEPT !.quit = TRUE] ELSE w1]
            /\ window' = "closing"
            /\ UNCHANGED <<gemini_thread, gemini_worker>>
       ELSE /\ gemini_thread' = 0
            /\ gemini_worker' = 0
            /\ window' = "closed"
            /\ UNCHANGED workers
    /\ UNCHANGED <<GEMINI_API_KEY_VALID, text_model, vision_model,
                   num_variations_for_worker, buttons_enabled, output_text_edit,
                   ui_events, jobs_created, session, last_cleanup, sanitizer, builder, library, basic_batch_count>>

\* closeEvent: wait(2000) returned true, the thread finished (lines 1157, 1159-1162)
CloseWaitFinished ==
    /\ window = "closing"
    /\ ~isRunning(gemini_thread)
    /\ gemini_thread' = 0
    /\ gemini_worker' = 0
    /\ window' = "closed"
    /\ UNCHANGED <<GEMINI_API_KEY_VALID, text_model, vision_model,
                   num_variations_for_worker, buttons_enabled, output_text_edit,
                   workers, ui_events, jobs_created, session, last_cleanup, sanitizer, builder, library, basic_batch_count>>

\* closeEvent: wait(2000) timed out, terminate() and wait() (lines 1157-1162)
CloseWaitTimeout ==
    /\ window = "closing"
    /\ isRunning(gemini_thread)
    /\ workers' = [workers EXCEPT ![gemini_thread].pc = "terminated"]
    /\ ui_events' = PostEvent(ui_events, Event("thread_finished", gemini_thread, <<>>))
    /\ gemini_thread' = 0
    /\ gemini_worker' = 0
    /\ window' = "closed"
    /\ UNCHANGED <<GEMINI_API_KEY_VALID, text_model, vision_model,
                   num_variations_for_worker, buttons_enabled, output_text_edit,
                   jobs_created, session, last_cleanup, sanitizer, builder, library, basic_batch_count>>

\* ------------------------------------------------------------------- Next
Next ==
    \/ Submit
    \/ HandleGeminiResults
    \/ HandleGeminiError
    \/ ThreadQuit
    \/ OnThreadFinishedCleanup
    \/ CloseEvent
    \/ CloseWaitFinished
    \/ CloseWaitTimeout
    \/ \E j \in Jobs : WorkerRun(j)
    \/ \E j \in Jobs : WorkerIterationCheck(j)
    \/ \E j \in Jobs : WorkerCore(j)
    \/ \E j \in Jobs : WorkerTextCallReturns(j)
    \/ \E j \in Jobs : WorkerTextCallRaises(j)
    \/ \E j \in Jobs : WorkerVisionPreconditions(j)
    \/ \E j \in Jobs : WorkerVisionIssueCall(j)
    \/ \E j \in Jobs : WorkerVisionCallReturns(j)
    \/ \E j \in Jobs : WorkerVisionCallRaises(j)
    \/ \E j \in Jobs : ThreadFinishes(j)

Spec == Init /\ [][Next]_vars

\* a step of a worker thread or of the UI thread's event loop, as opposed to the
\* user's submissions and closeEvent
SystemStep ==
    \/ \E j \in Jobs : WorkerRun(j)
    \/ \E j \in Jobs : WorkerIterationCheck(j)
    \/ \E j \in Jobs : WorkerCore(j)
    \/ \E j \in Jobs : WorkerTextCallReturns(j)
    \/ \E j \in Jobs : WorkerTextCallRaises(j)
    \/ \E j \in Jobs : WorkerVisionPreconditions(j)
    \/ \E j \in Jobs : WorkerVisionIssueCall(j)
    \/ \E j \in Jobs : WorkerVisionCallReturns(j)
    \/ \E j \in Jobs : WorkerVisionCallRaises(j)
    \/ \E j \in Jobs : ThreadFinishes(j)
    \/ HandleGeminiResults
    \/ HandleGeminiError
    \/ ThreadQuit
    \/ OnThreadFinishedCleanup
    \/ CloseWaitFinished
    \/ CloseWaitTimeout

\* scheduling: threads keep running, remote calls come back (return or raise) and
\* the UI thread's event loop keeps taking queued deliveries, so the system does
\* not stop while one of its steps is possible; submissions and closeEvent are
\* the user's and may never happen
Fairness == WF_vars(SystemStep)

\* the sessions whose behaviours are checked to the end: one job of any kind, or
\* a short series
FairInit == InitOf({"one_job", "pair"})

FairSpec == FairInit /\ [][Next]_vars /\ Fairness

\* ---------------------------------------------------------- the sanitizers
\* lines 289-302 (text path) or 348-351 (vision path) applied to a response text
SanitizeResponse(path, text) ==
    IF path = "text" THEN SanitizeText(text) ELSE SanitizeVision(text)

\* a response text goes through the sanitizing of one path
Sanitize(path) ==
    /\ sanitizer.applied = 0
    /\ sanitizer' = [sanitizer EXCEPT !.path = path, !.applied = 1,
                                      !.once = SanitizeResponse(path, sanitizer.raw)]
    /\ UNCHANGED <<GEMINI_API_KEY_VALID, text_model, vision_model,
                   num_variations_for_worker, gemini_thread, gemini_worker,
                   buttons_enabled, output_text_edit, workers, ui_events, window,
                   jobs_created, session, last_cleanup, builder, library, basic_batch_count>>

\* the sanitized text goes through the same sanitizing once more
SanitizeAgain ==
    /\ sanitizer.applied = 1
    /\ sanitizer' = [sanitizer EXCEPT !.applied = 2,
                                      !.twice = SanitizeResponse(sanitizer.path, sanitizer.once)]
    /\ UNCHANGED <<GEMINI_API_KEY_VALID, text_model, vision_model,
                   num_variations_for_worker, gemini_thread, gemini_worker,
                   buttons_enabled, output_text_edit, workers, ui_events, window,
                   jobs_created, session, last_cleanup, builder, library, basic_batch_count>>

SanitizerInit ==
    /\ ProgramInit({"one_job"})
    /\ text_model /\ vision_model
    /\ sanitizer \in {[NoSanitizing EXCEPT !.pieces = ps, !.raw = Flatten(ps)] : ps \in PieceSeqs}
    /\ builder = NoBuilder(<<>>, <<>>, <<>>)
    /\ library = Library(<<>>)
    /\ basic_batch_count = 1

SanitizerNext ==
    \/ \E path \in {"text", "vision"} : Sanitize(path)
    \/ SanitizeAgain

SanitizerSpec == SanitizerInit /\ [][SanitizerNext]_vars

\* ------------------------------------------------------------ the builders
\* the window with the text model at hand and a tab filled in some way; the
\* builders run on it
BuilderInit ==
    /\ ProgramInit({"one_job"})
    /\ text_model /\ vision_model
    /\ sanitizer = NoSanitizing
    /\ builder \in {NoBuilder(f, loaded, mod) :
                        f \in Forms, loaded \in FieldTexts, mod \in FieldTexts}
    /\ library = Library(<<>>)
    /\ basic_batch_count \in 1..MaxVars

BuilderNext ==
    \/ TriggerGeminiBasicGeneration
    \/ TriggerGeminiAdvancedImageGeneration
    \/ TriggerGeminiVideoGeneration

BuilderSpec == BuilderInit /\ [][BuilderNext]_vars

\* --------------------------------------------------------- the controller
\* a step of the user interface that leaves the jobs alone
WidgetsChange(b) ==
    /\ window = "open"
    /\ builder' = b
    /\ UNCHANGED <<GEMINI_API_KEY_VALID, text_model, vision_model,
                   num_variations_for_worker, gemini_thread, gemini_worker,
                   buttons_enabled, output_text_edit, workers, ui_events, window,
                   jobs_created, session, last_cleanup, sanitizer, library, basic_batch_count>>

\* _upload_image_qt (lines 1036-1054): the dialog is cancelled, the file is
\* opened, or opening or converting it raises and _reset_image_preview
\* (lines 1056-1058) runs
UploadImageQt ==
    \E result \in {"cancelled", "loaded", "raised"} :
        /\ result = "cancelled" => builder.uploaded_image_pil
        /\ WidgetsChange([builder EXCEPT !.uploaded_image_pil =
                              IF result = "cancelled" THEN @ ELSE result = "loaded"])

\* the radio buttons of the image tab (lines 827-836)
SelectPromptType ==
    /\ window = "open"
    /\ \E to_video \in BOOLEAN :
         WidgetsChange([builder EXCEPT !.img_to_video_radio = to_video])

\* mutant of TriggerGeminiVisionGeneration: the uploaded image is not looked at
TriggerGeminiVisionGenerationUnchecked ==
    /\ window = "open" /\ buttons_enabled
    /\ vision_model
    /\ LET target_prompt_type == IF builder.img_to_video_radio THEN "video" ELSE "image"
           query_for_worker == <<Lit("Generate a "), Lit(target_prompt_type),
                                 Lit(" prompt from the provided image.")>>
       IN  /\ builder' = [builder EXCEPT !.name = "vision", !.outcome = "triggered",
                                         !.num_vars = 1, !.query = query_for_worker]
           /\ TriggerGeminiOperation(query_for_worker, target_prompt_type, 1, "vision",
                                     builder.uploaded_image_pil, FALSE)

\* _trigger_gemini_vision_generation (lines 1306-1315)
TriggerGeminiVisionGeneration ==
    /\ window = "open" /\ buttons_enabled
    /\ IF ~vision_model \/ ~builder.uploaded_image_pil
       THEN /\ builder' = [builder EXCEPT !.name = "vision",
                                          !.outcome = IF ~vision_model
                                                      THEN "vision_unavailable"
                                                      ELSE "no_image",
                                          !.num_vars = 0, !.query = <<>>]
            /\ UNCHANGED <<GEMINI_API_KEY_VALID, text_model, vision_model,
                           num_variations_for_worker, gemini_thread, gemini_worker,
                           buttons_enabled, output_text_edit, workers, ui_events, window,
                           jobs_created, session, last_cleanup, sanitizer, library, basic_batch_count>>
       ELSE LET target_prompt_type == IF builder.img_to_video_radio THEN "video" ELSE "image"
                query_for_worker == <<Lit("Generate a "), Lit(target_prompt_type),
                                      Lit(" prompt from the provided image.")>>
            IN  /\ builder' = [builder EXCEPT !.name = "vision", !.outcome = "triggered",
                                              !.num_vars = 1, !.query = query_for_worker]
                /\ TriggerGeminiOperation(query_for_worker, target_prompt_type, 1, "vision",
                                          builder.uploaded_image_pil, FALSE)

\* the window as its user may have left it before pressing a generate button:
\* either model may be missing, the text tabs hold a core idea, a base prompt,
\* both or nothing, no image is uploaded yet
ControllerInit ==
    /\ ProgramInit({"one_job"})
    /\ sanitizer = NoSanitizing
    /\ builder \in {NoBuilder([k \in Fields |-> IF k = 1 THEN idea ELSE <<>>], loaded, <<>>) :
                        idea \in FieldTexts, loaded \in FieldTexts}
    /\ library = Library(<<>>)
    /\ basic_batch_count \in 1..MaxVars

ControllerNext ==
    \/ UploadImageQt
    \/ SelectPromptType
    \/ TriggerGeminiBasicGeneration
    \/ TriggerGeminiAdvancedImageGeneration
    \/ TriggerGeminiVideoGeneration
    \/ TriggerGeminiVisionGeneration

ControllerSpec == ControllerInit /\ [][ControllerNext]_vars

\* ------------------------------------------------------------ the library
\* what the user types into the name dialog
NameInputs == {<<>>, <<" ">>, <<"a">>, <<"A">>, <<" ", "a", " ">>, <<"b">>}

\* the prompts of LibrarySpec: what a generation showed, what the library file held
A_FOX == <<"a", " ", "f", "o", "x">>
LibraryPrompts == {A_FOX, TEXT_CAT}

LibraryItem(name, prompt) == [name |-> name, prompt |-> prompt]

\* output_text_edit.toPlainText() for an output area that is empty or shows one
\* generated prompt
OutputPlainText ==
    CASE output_text_edit.kind = "empty" -> <<>>
      [] output_text_edit.kind = "single" -> EntryText(output_text_edit.parts[1].entry)

\* mutant of SameName: the names are compared as they are written
SameNameExact(a, b) == a = b

\* item['name'].lower() == name.lower() (lines 1107, 1109)
SameName(a, b) == Lower(a) = Lower(b)

\* a library operation that changes nothing but the library
LibraryChange(data, op, name, prompt) ==
    /\ library' = [prompt_library_data |-> data,
                   last |-> [op |-> op, name |-> name, prompt |-> prompt]]
    /\ UNCHANGED <<GEMINI_API_KEY_VALID, text_model, vision_model,
                   num_variations_for_worker, gemini_thread, gemini_worker,
                   buttons_enabled, output_text_edit, workers, ui_events, window,
                   jobs_created, session, last_cleanup, sanitizer, builder,
                   basic_batch_count>>

\* _save_to_library_dialog (lines 1100-1114); typed and ok are what the name
\* dialog returns, overwrite is the answer to "Overwrite?"
SaveToLibraryDialog ==
    /\ window = "open" /\ buttons_enabled
    /\ LET data == library.prompt_library_data
           prompt_to_save == Strip(OutputPlainText)
       IN  IF prompt_to_save = <<>>
           THEN LibraryChange(data, "empty_prompt", <<>>, <<>>)
           ELSE \E typed \in NameInputs, ok \in BOOLEAN, overwrite \in BOOLEAN :
                  LET name == Strip(typed) IN
                  IF ok /\ name # <<>>
                  THEN IF \E k \in 1..Len(data) : SameName(data[k].name, name)
                       THEN IF ~overwrite
                            THEN LibraryChange(data, "declined", name, prompt_to_save)
                            ELSE LibraryChange(
                                     Append(SelectSeq(data, LAMBDA item :
                                                ~SameName(item.name, name)),
                                            LibraryItem(name, prompt_to_save)),
                                     "overwritten", name, prompt_to_save)
                       ELSE LibraryChange(Append(data, LibraryItem(name, prompt_to_save)),
                                          "saved", name, prompt_to_save)
                  ELSE LibraryChange(data, IF ok THEN "name_required" ELSE "cancelled",
                                     <<>>, <<>>)

\* _delete_from_library (lines 1140-1149); selected is the entry selected in the
\* list (0: none), confirm the answer to "Delete?"
DeleteFromLibrary ==
    /\ window = "open" /\ buttons_enabled
    /\ LET data == library.prompt_library_data IN
       \E selected \in 0..Len(data), confirm \in BOOLEAN :
           IF selected = 0
           THEN LibraryChange(data, "no_selection", <<>>, <<>>)
           ELSE IF confirm
           THEN LibraryChange(SelectSeq(data, LAMBDA item : item # data[selected]),
                              "deleted", data[selected].name, data[selected].prompt)
           ELSE LibraryChange(data, "kept", data[selected].name, data[selected].prompt)

\* the libraries of at most two entries in which no two names are equal ignoring
\* case
UniqueLibraries ==
    {<<>>}
    \cup {<<LibraryItem(n, q)>> : n \in {<<"a">>, <<"A">>, <<"b">>}, q \in LibraryPrompts}
    \cup {<<LibraryItem(n1, q1), LibraryItem(n2, q2)>> :
              n1 \in {<<"a">>, <<"A">>}, n2 \in {<<"b">>},
              q1 \in LibraryPrompts, q2 \in LibraryPrompts}
    \cup {<<LibraryItem(n2, q2), LibraryItem(n1, q1)>> :
              n1 \in {<<"a">>, <<"A">>}, n2 \in {<<"b">>},
              q1 \in LibraryPrompts, q2 \in LibraryPrompts}

\* the window with a library loaded, either fresh or after a basic job has shown
\* its prompt and was cleaned up
LibraryInit ==
    /\ GEMINI_API_KEY_VALID = TRUE
    /\ text_model = TRUE
    /\ vision_model = TRUE
    /\ num_variations_for_worker = 1
    /\ gemini_thread = 0
    /\ gemini_worker = 0
    /\ buttons_enabled = TRUE
    /\ ui_events = <<>>
    /\ window = "open"
    /\ session = "one_job"
    /\ \/ /\ jobs_created = 0
          /\ workers = [j \in Jobs |-> NoWorker]
          /\ output_text_edit = [kind |-> "empty", parts |-> <<>>]
          /\ last_cleanup = [job |-> 0, owed |-> <<>>, handled |-> <<>>]
       \/ /\ jobs_created = 1
          /\ workers = [j \in Jobs |-> IF j = 1 THEN DeletedWorker ELSE NoWorker]
          /\ output_text_edit = RenderResults(<<TextEntry(A_FOX)>>)
          /\ last_cleanup = [job |-> 1, owed |-> <<"result">>, handled |-> <<"result">>]
    /\ sanitizer = NoSanitizing
    /\ builder = NoBuilder(<<>>, <<>>, <<>>)
    /\ basic_batch_count = 1
    /\ library \in {Library(data) : data \in UniqueLibraries}

LibraryNext ==
    \/ SaveToLibraryDialog
    \/ DeleteFromLibrary

LibrarySpec == LibraryInit /\ [][LibraryNext]_vars

\* ------------------------------------------------- the variation counter
\* PromptCraftAI_Qt.MAX_VARIATIONS (line 385)
MAX_VARIATIONS == 10

\* a handler of the counter's buttons ran: the history keeps its name and the
\* count it found
CounterChange(name, count) ==
    /\ window = "open"
    /\ basic_batch_count' = count
    /\ builder' = [builder EXCEPT !.name = name, !.outcome = "counted",
                                  !.num_vars = basic_batch_count, !.query = <<>>]
    /\ UNCHANGED <<GEMINI_API_KEY_VALID, text_model, vision_model,
                   num_variations_for_worker, gemini_thread, gemini_worker,
                   buttons_enabled, output_text_edit, workers, ui_events, window,
                   jobs_created, session, last_cleanup, sanitizer, library>>

\* _decrease_basic_variations (lines 1066-1069)
DecreaseBasicVariations ==
    IF basic_batch_count > 1
    THEN CounterChange("decrease", basic_batch_count - 1)
    ELSE CounterChange("decrease", basic_batch_count)

\* mutant of IncreaseBasicVariations: the count is raised whatever it is
IncreaseBasicVariationsUnchecked ==
    CounterChange("increase", basic_batch_count + 1)

\* _increase_basic_variations (lines 1071-1074)
IncreaseBasicVariations ==
    IF basic_batch_count < MAX_VARIATIONS
    THEN CounterChange("increase", basic_batch_count + 1)
    ELSE CounterChange("increase", basic_batch_count)

\* the fresh window (count 1, line 384) with the basic tab filled in or not
CounterInit ==
    /\ ProgramInit({"one_job"})
    /\ text_model /\ vision_model
    /\ sanitizer = NoSanitizing
    /\ builder \in {NoBuilder([k \in Fields |-> IF k = 1 THEN idea ELSE <<>>], loaded, <<>>) :
                        idea \in FieldTexts, loaded \in FieldTexts}
    /\ library = Library(<<>>)
    /\ basic_batch_count = 1

CounterNext ==
    \/ DecreaseBasicVariations
    \/ IncreaseBasicVariations
    \/ TriggerGeminiBasicGeneration

CounterSpec == CounterInit /\ [][CounterNext]_vars

\* ================================================================ claims
\* how many times a worker emitted the signal sig
Count(emitted, sig) == Cardinality({k \in 1..Len(emitted) : emitted[k].sig = sig})

\* run() of job j has returned
RunReturned(j) == workers[j].pc \in {"exec", "finished"}

\* job j was accepted and its thread-finished cleanup has not run
CleanupPending(j) == workers[j].pc \notin {"none", "deleted"}

\* C1: single-flight admission: while an accepted submission's thread-finished
\* cleanup has not run, no later submission is accepted (no later job exists).
C1_SingleFlightAdmission ==
    \A j, k \in Jobs :
        (j < k /\ CleanupPending(j)) => workers[k].pc = "none"

\* C2: in every reachable state at most one GeminiWorker.run is in progress.
C2_AtMostOneRun ==
    Cardinality({j \in Jobs : InRun(j)}) <= 1

\* C3: once run() has returned, exactly one of result_ready / error_occurred was
\* emitted, exactly once in total.
C3_ExactlyOneTerminalSignal ==
    \A j \in Jobs :
        RunReturned(j) =>
            Count(workers[j].emitted, "result_ready")
              + Count(workers[j].emitted, "error_occurred") = 1

\* C4: once run() has returned, the worker's finished signal was emitted exactly once.
C4_FinishedExactlyOnce ==
    \A j \in Jobs :
        RunReturned(j) => Count(workers[j].emitted, "worker_finished") = 1

\* C5: when a job's thread-finished cleanup runs, the handler of every terminal
\* signal the job emitted has already run on the UI thread.
C5_HandlerBeforeCleanup ==
    last_cleanup.job # 0 => last_cleanup.handled = last_cleanup.owed

\* C5 witness: a cleanup has run for a job whose terminal signal was handled
C5_Witness ==
    last_cleanup.job # 0 /\ last_cleanup.handled # <<>>


\* the entry is one of the two cancellation messages
IsCancelledEntry(e) == e.kind \in {"batch_cancelled", "op_cancelled"}

\* what lines 289-302 are expected to make of each raw text a remote call returns
ExpectedText(raw) ==
    IF raw = RAW_WRAPPED THEN <<"a", " ", "f", "o", "x">> ELSE <<>>

\* the entry the remote call recorded as c leaves in a text job's result list
CallOutcome(c) ==
    IF c.raised THEN ApiErrorEntry(c.idx + 1, "api_error_remote")
    ELSE TextEntry(ExpectedText(c.raw))

\* the worker of job j saw its cancel flag set: at the top of run (only finished
\* was emitted although the key is valid), at the start of an iteration, or at
\* the entry of _generate_single_prompt_core
CancelObservedInText(j) ==
    \/ GEMINI_API_KEY_VALID /\ workers[j].emitted = <<Finished(j)>>
    \/ workers[j].iter_flag
    \/ \E m \in 1..Len(workers[j].all_results) : workers[j].all_results[m].kind = "op_cancelled"

\* C6: for a text job submitted with num_vars = N, the list carried by
\* result_ready always has exactly N entries, whatever failed or was cancelled.
C6_ResultListHasNEntries ==
    \A j \in Jobs : \A k \in 1..Len(workers[j].emitted) :
        (workers[j].operation_type = "text" /\ workers[j].emitted[k].sig = "result_ready")
            => Len(workers[j].emitted[k].arg) = workers[j].num_variations

\* C7: partial-failure isolation in a text job. Every remote call that raised
\* left an error description for its own variation at its own index, every
\* remote call that returned left its own sanitized text at its own index, the
\* error descriptions are exactly those of the raised calls, the job never emits
\* error_occurred and ends with result_ready carrying that list, and after a
\* failure every later variation was still attempted (unless the job was cancelled).
C7_PartialFailureIsolation ==
    \A j \in Jobs :
        LET w == workers[j] IN
        (w.operation_type = "text" /\ w.calls # <<>>) =>
            /\ \A k \in 1..Len(w.calls) :
                   /\ w.calls[k].idx < Len(w.all_results)
                   /\ w.all_results[w.calls[k].idx + 1] = CallOutcome(w.calls[k])
            /\ \A m \in 1..Len(w.all_results) :
                   w.all_results[m].kind = "api_error_remote" =>
                       \E k \in 1..Len(w.calls) : w.calls[k].idx = m - 1 /\ w.calls[k].raised
            /\ Count(w.emitted, "error_occurred") = 0
            /\ RunReturned(j) => w.emitted = <<ResultReady(j, w.all_results), Finished(j)>>
            /\ (RunReturned(j) /\ ~w.quit_requested) =>
                   /\ Len(w.all_results) = w.n
                   /\ \A k \in 1..Len(w.calls) :
                          w.calls[k].raised =>
                              \A m \in (w.calls[k].idx + 1)..(w.n - 1) :
                                  \E k2 \in 1..Len(w.calls) : w.calls[k2].idx = m

\* C7 witness: a text job whose first remote call raised and whose second returned
\* has delivered its list
C7_Witness ==
    \E j \in Jobs :
        /\ workers[j].operation_type = "text"
        /\ RunReturned(j)
        /\ Len(workers[j].calls) = 2
        /\ workers[j].calls[1].raised /\ ~workers[j].calls[2].raised
        /\ Count(workers[j].emitted, "result_ready") = 1

\* C8: text-job cancellation fills the tail. If the flag was observed set at the
\* start of variation k of an N-variation text job (k = 0 before the body starts
\* included), the job is delivered through result_ready and the delivered list
\* has N entries with a cancelled entry at k and at every later index.
C8_CancellationFillsTail ==
    \A j \in Jobs :
        LET w == workers[j] IN
        (w.operation_type = "text" /\ RunReturned(j) /\ CancelObservedInText(j)) =>
            /\ w.emitted = <<ResultReady(j, w.all_results), Finished(j)>>
            /\ Len(w.all_results) = w.num_variations
            /\ \E k \in 1..Len(w.all_results) :
                   \A m \in k..Len(w.all_results) : IsCancelledEntry(w.all_results[m])

\* C9: cancellation is advisory and prevents only new work. No remote call is in
\* flight for a unit of work (a text iteration, the vision call) that read the
\* flag as set when it started; and every remote call that returned after the
\* flag was set has its outcome recorded (in the list at its index for a text
\* job, in the emitted signal for a vision job).
C9_CancellationIsAdvisory ==
    \A j \in Jobs :
        LET w == workers[j] IN
        /\ w.pc \in {"call", "vision_call"} => ~w.iter_flag
        /\ \A k \in 1..Len(w.calls) :
               w.calls[k].late =>
                   IF w.operation_type = "text"
                   THEN /\ w.calls[k].idx < Len(w.all_results)
                        /\ w.all_results[w.calls[k].idx + 1] = CallOutcome(w.calls[k])
                   ELSE IF w.calls[k].raised
                   THEN w.emitted = <<ErrorOccurred(j, ErrorEntry("vision_api_error", w.context)),
                                      Finished(j)>>
                   ELSE /\ Len(w.emitted) = 2
                        /\ w.emitted[1].sig = "result_ready"
                        /\ Len(w.emitted[1].arg) = 1

\* C9 witness: a remote call that was in flight when the flag was set has
\* returned and its text is in the job's list
C9_Witness ==
    \E j \in Jobs :
        /\ workers[j].operation_type = "text"
        /\ workers[j].calls # <<>>
        /\ workers[j].calls[1].late /\ ~workers[j].calls[1].raised
        /\ workers[j].all_results[1] = CallOutcome(workers[j].calls[1])

\* the capability job j needs was not initialized at process start
CapabilityMissing(j) ==
    \/ workers[j].operation_type = "text" /\ ~text_model
    \/ workers[j].operation_type = "vision" /\ ~vision_model

\* C10: capability precondition, both paths. A job whose capability is missing
\* (the key being usable and the job not cancelled) ends with error_occurred
\* carrying a 'not initialized' description, with no result list and no remote call.
C10_MissingCapabilityIsFatal ==
    \A j \in Jobs :
        LET w == workers[j] IN
        (RunReturned(j) /\ CapabilityMissing(j) /\ GEMINI_API_KEY_VALID /\ ~w.quit_requested) =>
            /\ w.calls = <<>>
            /\ Count(w.emitted, "result_ready") = 0
            /\ Count(w.emitted, "error_occurred") = 1
            /\ \A k \in 1..Len(w.emitted) :
                   w.emitted[k].sig = "error_occurred" =>
                       Contains(EntryText(w.emitted[k].arg[1]), NOT_INITIALIZED)


\* C11 as stated: a vision job whose image is absent ends with error_occurred
\* carrying the 'No image provided' description and never calls the remote
\* vision capability, whatever else holds.
C11_NoImageAlwaysReported ==
    \A j \in Jobs :
        LET w == workers[j] IN
        (w.operation_type = "vision" /\ ~w.pil_image /\ RunReturned(j)) =>
            /\ w.emitted = <<ErrorOccurred(j, ErrorEntry("no_image", "")), Finished(j)>>
            /\ w.calls = <<>>

\* C11 amended: a vision job whose image is absent never calls the remote vision
\* capability and never emits result_ready; when the key is valid, the vision
\* model is initialized and the cancel flag is not set, it ends with
\* error_occurred carrying the 'No image provided' description.
C11_NoImageIsFatal ==
    \A j \in Jobs :
        LET w == workers[j] IN
        (w.operation_type = "vision" /\ ~w.pil_image) =>
            /\ w.calls = <<>>
            /\ w.pc \notin {"vision_build", "vision_call"}
            /\ Count(w.emitted, "result_ready") = 0
            /\ (RunReturned(j) /\ GEMINI_API_KEY_VALID /\ vision_model /\ ~w.quit_requested) =>
                   /\ w.emitted = <<ErrorOccurred(j, ErrorEntry("no_image", "")), Finished(j)>>
                   /\ EntryText(w.emitted[1].arg[1]) = MSG_NO_IMAGE

\* C11 witness: a vision job without image has ended with the 'No image provided' error
C11_Witness ==
    \E j \in Jobs :
        /\ workers[j].operation_type = "vision" /\ ~workers[j].pil_image
        /\ RunReturned(j)
        /\ workers[j].emitted = <<ErrorOccurred(j, ErrorEntry("no_image", "")), Finished(j)>>

\* C12: in a vision job, an exception raised by the remote call ends the whole
\* job with error_occurred carrying the vision error description; no
\* result_ready is emitted and no result list holds the failure.
C12_VisionFailureIsFatal ==
    \A j \in Jobs :
        LET w == workers[j] IN
        (w.operation_type = "vision" /\ \E k \in 1..Len(w.calls) : w.calls[k].raised) =>
            /\ Len(w.calls) = 1
            /\ ~InRun(j)
            /\ w.emitted = <<ErrorOccurred(j, ErrorEntry("vision_api_error", w.context)),
                             Finished(j)>>
            /\ Count(w.emitted, "result_ready") = 0
            /\ w.all_results = <<>>
            /\ \A k \in 1..Len(ui_events) :
                   ui_events[k].job = j => ui_events[k].sig # "result_ready"

\* C12 witness: the remote call of a vision job raised and error_occurred was emitted
C12_Witness ==
    \E j \in Jobs :
        /\ workers[j].operation_type = "vision"
        /\ workers[j].calls # <<>> /\ workers[j].calls[1].raised
        /\ Count(workers[j].emitted, "error_occurred") = 1

\* C13: a rejected (busy) submission changes nothing the running job depends on.
\* In a session with one accepted submission every other submission is rejected,
\* so the number of variations a text job attempts (the bound of its loop) is
\* the num_vars of the job's own submission.
C13_RejectedSubmissionHasNoEffect ==
    session = "one_job" =>
        \A j \in Jobs :
            LET w == workers[j] IN
            (w.operation_type = "text" /\ (InRun(j) \/ w.all_results # <<>>))
                => w.n = w.num_variations


\* the state right after the thread-finished cleanup of job j: the job handle is
\* None, the UI is enabled again and the busy test lets the next submission in
IdleAfter(j) ==
    /\ last_cleanup.job = j
    /\ gemini_thread = 0 /\ gemini_worker = 0
    /\ buttons_enabled
    /\ ~Busy

\* C14: return to idle. Every accepted submission whose remote calls come back
\* leads, while the window stays open, to its thread-finished cleanup, after
\* which the job handle is None and the next submission is accepted, whether the
\* job ended in a result or in a fatal error.
C14_ReturnToIdle ==
    \A j \in Jobs :
        (workers[j].pc = "started") ~> (window # "open" \/ IdleAfter(j))

\* C14 witness: after the cleanup of job 1 the next submission was accepted as job 2
C14_Witness ==
    /\ last_cleanup.job = 1
    /\ jobs_created = 2
    /\ gemini_thread = 2 /\ gemini_worker = 2
    /\ workers[2].pc = "started"


\* C15: shutdown with a running job. While closeEvent waits, the cancel flag of
\* every running job's worker is set; when closeEvent has completed, the job
\* handle is cleared and no job's thread is still running (each has finished or
\* was forcibly abandoned), even when a remote call never returns.
C15_ShutdownAbandonsRunningJob ==
    /\ window = "closing" =>
           \A j \in Jobs : isRunning(j) => workers[j].quit_requested
    /\ window = "closed" =>
           /\ gemini_thread = 0 /\ gemini_worker = 0
           /\ \A j \in Jobs : ~isRunning(j)


\* the sanitizers described on the pieces a response text is put together from
TextPrefixPieces == {"Prompt:", "HERE'S THE PROMPT:"}
TextSuffixPieces == {"Hope this helps!"}
VisionPrefixPieces == {"Prompt:", "Video Prompt Idea:"}

RECURSIVE DropLeadingSpace(_)
DropLeadingSpace(ps) ==
    IF ps # <<>> /\ Head(ps) = "sp" THEN DropLeadingSpace(Tail(ps)) ELSE ps

RECURSIVE DropTrailingSpace(_)
DropTrailingSpace(ps) ==
    IF ps # <<>> /\ ps[Len(ps)] = "sp"
    THEN DropTrailingSpace(SubSeq(ps, 1, Len(ps) - 1)) ELSE ps

TrimPieces(ps) == DropTrailingSpace(DropLeadingSpace(ps))

\* one leading phrase and the whitespace after it removed, if there is one
DropOnePrefix(ps, prefixes) ==
    IF ps # <<>> /\ Head(ps) \in prefixes THEN DropLeadingSpace(Tail(ps)) ELSE ps

\* one trailing phrase and the whitespace before it removed, if there is one
DropOneSuffix(ps, suffixes) ==
    IF ps # <<>> /\ ps[Len(ps)] \in suffixes
    THEN DropTrailingSpace(SubSeq(ps, 1, Len(ps) - 1)) ELSE ps

ExpectedPieces(path, ps) ==
    IF path = "text"
    THEN DropOneSuffix(DropOnePrefix(TrimPieces(ps), TextPrefixPieces), TextSuffixPieces)
    ELSE DropOnePrefix(TrimPieces(ps), VisionPrefixPieces)

PrefixPiecesOf(path) == IF path = "text" THEN TextPrefixPieces ELSE VisionPrefixPieces

\* C16: sanitizer idempotence: applying a path's sanitization twice gives the
\* same string as applying it once.
C16_SanitizerIdempotent ==
    sanitizer.applied = 2 => sanitizer.twice = sanitizer.once

\* C17 as stated: a raw text that does not start with a known prefix phrase and
\* does not end with a known suffix phrase comes out of the text-path sanitizer
\* as the input with leading and trailing whitespace removed.
C17_UntouchedUnlessRawMatches ==
    (sanitizer.applied >= 1 /\ sanitizer.path = "text" /\ sanitizer.pieces # <<>>
       /\ Head(sanitizer.pieces) \notin TextPrefixPieces
       /\ sanitizer.pieces[Len(sanitizer.pieces)] \notin TextSuffixPieces)
        => sanitizer.once = Flatten(TrimPieces(sanitizer.pieces))

\* C17 amended: a raw text whose whitespace-trimmed form does not start with a
\* known prefix phrase and does not end with a known suffix phrase comes out of
\* the text-path sanitizer as the input with leading and trailing whitespace
\* removed, and nothing else changed.
C17_UntouchedUnlessTrimmedMatches ==
    LET t == TrimPieces(sanitizer.pieces) IN
    (sanitizer.applied >= 1 /\ sanitizer.path = "text"
       /\ (t # <<>> => Head(t) \notin TextPrefixPieces /\ t[Len(t)] \notin TextSuffixPieces))
        => sanitizer.once = Flatten(t)

\* C17 witness: a text with whitespace before a known suffix phrase that is
\* followed by a body came out trimmed and otherwise unchanged
C17_Witness ==
    /\ sanitizer.applied = 1 /\ sanitizer.path = "text"
    /\ sanitizer.pieces = <<"sp", "Hope this helps!", "body">>
    /\ sanitizer.once = Flatten(<<"Hope this helps!", "body">>)

\* C18: first match wins. When the trimmed raw text starts with a known prefix
\* phrase of the path, exactly that one phrase and the whitespace right after it
\* are removed; a known prefix exposed by the removal stays.
C18_FirstMatchWins ==
    LET t == TrimPieces(sanitizer.pieces) IN
    (sanitizer.applied >= 1 /\ t # <<>> /\ Head(t) \in PrefixPiecesOf(sanitizer.path))
        => sanitizer.once = Flatten(ExpectedPieces(sanitizer.path, sanitizer.pieces))

\* C18 witness: of two known prefixes at the start only the first was removed
C18_Witness ==
    /\ sanitizer.applied = 1 /\ sanitizer.path = "text"
    /\ sanitizer.pieces = <<"Prompt:", "HERE'S THE PROMPT:", "body">>
    /\ sanitizer.once = Flatten(<<"HERE'S THE PROMPT:", "body">>)


\* the inputs of the builder called name are all empty once trimmed and no base
\* prompt is loaded (the basic builder reads one input, the core idea)
InputsEmpty(name) ==
    /\ Strip(builder.loaded) = <<>>
    /\ IF name = "basic" THEN Strip(builder.components[1]) = <<>>
       ELSE ActiveComponents(builder.components) = <<>>

\* C19: empty-request validation: when every input field of a text builder
\* (basic, advanced image, video) is empty and no base prompt is loaded, the
\* builder reports "Input Missing" and returns without calling
\* _trigger_gemini_operation: no worker or thread is created and the job handle,
\* the buttons and the output area stay as they were.
C19_EmptyRequestIsRejected ==
    [][(builder' # builder /\ InputsEmpty(builder'.name))
         => /\ builder'.outcome = "input_missing"
            /\ UNCHANGED <<gemini_thread, gemini_worker, workers, jobs_created,
                           buttons_enabled, output_text_edit, ui_events>>]_vars

\* C19 witness: the advanced image builder has reported "Input Missing" on a tab
\* whose widgets are empty or hold whitespace only, and no job exists
C19_Witness ==
    /\ builder.name = "advanced_image" /\ builder.outcome = "input_missing"
    /\ builder.components = [k \in Fields |-> IF k = 4 THEN <<" ">> ELSE <<>>]
    /\ builder.loaded = <<" ">>
    /\ jobs_created = 0 /\ gemini_thread = 0

\* the directive a builder closes its query with
DirectiveOf(context) ==
    CASE context = "Basic Prompt" -> BASIC_DIRECTIVE
      [] context = "Advanced Image Prompt" -> IMAGE_DIRECTIVE
      [] context = "Detailed Video Prompt" -> VIDEO_DIRECTIVE

ContextOf(name) ==
    CASE name = "basic" -> "Basic Prompt"
      [] name = "advanced_image" -> "Advanced Image Prompt"
      [] name = "video" -> "Detailed Video Prompt"

EndsWithDirective(query, context) ==
    query # <<>> /\ query[Len(query)] = Lit(DirectiveOf(context))

\* C20: every query a text builder hands to _trigger_gemini_operation ends with
\* the builder's output-only directive as its last part, whatever the fields,
\* the base prompt and the edit instruction that passed validation hold; the
\* worker of an accepted submission is created with that query.
C20_QueryEndsWithDirective ==
    /\ builder.outcome = "triggered"
         => EndsWithDirective(builder.query, ContextOf(builder.name))
    /\ \A j \in Jobs :
         workers[j].pc # "none"
           => EndsWithDirective(workers[j].query, workers[j].context)

\* C20 witness: the video builder has handed over a query made of a base prompt,
\* an edit instruction and two components, and the worker holds it
C20_Witness ==
    /\ builder.name = "video" /\ builder.outcome = "triggered"
    /\ Strip(builder.loaded) = TEXT_CAT /\ Strip(builder.mod) = TEXT_CAT
    /\ ActiveComponents(builder.components) = <<2, 7>>
    /\ jobs_created = 1 /\ workers[1].query = builder.query
    /\ Len(builder.query) > 20

\* the quotation of the loaded prompt a builder's query opens with
BaseHeader(name) ==
    CASE name = "basic" -> "Base existing prompt to work with:\n"
      [] name = "advanced_image" -> "Base existing image prompt:\n"
      [] name = "video" -> "Base existing video prompt:\n"

QuotedBase(name) ==
    <<Lit(BaseHeader(name)), FENCE, Lit("\n"), Val(Strip(builder.loaded)), Lit("\n"), FENCE>>

\* the edit instruction as it follows the quotation
EditPart(name) ==
    IF name = "basic"
    THEN <<Lit("\n"), Lit("Refine or modify according to: "), Val(Strip(builder.mod))>>
    ELSE <<Lit("\n\n"), Lit("Modify with: "), Val(Strip(builder.mod))>>

\* the fields besides base prompt and edit instruction that are not empty, and
\* those of them the query holds as a hint
RemainingFields(name) ==
    IF name = "basic"
    THEN IF Strip(builder.components[1]) # <<>> THEN 1 ELSE 0
    ELSE Len(ActiveComponents(builder.components))

HintsIn(name, query) ==
    IF name = "basic"
    THEN Cardinality({k \in 1..Len(query) :
                        /\ query[k] = Lit("Refine/combine with core idea: ")
                        /\ k < Len(query) /\ query[k + 1] = Val(Strip(builder.components[1]))})
    ELSE Cardinality({k \in 1..Len(query) :
                        /\ query[k] = Lit("  - ") /\ k + 3 <= Len(query)
                        /\ query[k + 2] = Lit(": ") /\ query[k + 3].val # <<>>})

BaseLoaded == builder.outcome = "triggered" /\ Strip(builder.loaded) # <<>>

\* C21 as stated: with a base prompt loaded the query begins with the quoted base
\* prompt, followed by the edit instruction if one is given, and the remaining
\* non-empty fields are included as hints only when no edit instruction is given.
C21_HintsOnlyWithoutEdit ==
    BaseLoaded =>
        /\ StartsWith(builder.query, QuotedBase(builder.name))
        /\ IF Strip(builder.mod) # <<>>
           THEN /\ StartsWith(builder.query, QuotedBase(builder.name) \o EditPart(builder.name))
                /\ HintsIn(builder.name, builder.query) = 0
           ELSE HintsIn(builder.name, builder.query) = RemainingFields(builder.name)

\* C21 (amended): with a base prompt loaded the query begins with the quoted base
\* prompt, followed by the edit instruction if one is given; the basic builder
\* includes the core idea as a hint only when no edit instruction is given, the
\* advanced image and video builders include every remaining non-empty field
\* whether or not an edit instruction is given.
C21_BasePromptMode ==
    BaseLoaded =>
        /\ StartsWith(builder.query, QuotedBase(builder.name))
        /\ Strip(builder.mod) # <<>>
             => StartsWith(builder.query, QuotedBase(builder.name) \o EditPart(builder.name))
        /\ HintsIn(builder.name, builder.query) =
             IF builder.name = "basic" /\ Strip(builder.mod) # <<>> THEN 0
             ELSE RemainingFields(builder.name)

\* C21 witness: the basic builder has handed over a query for a tab with a base
\* prompt, an edit instruction and a core idea, and the query has no hint
C21_Witness ==
    /\ builder.name = "basic" /\ BaseLoaded
    /\ Strip(builder.mod) = TEXT_CAT /\ Strip(builder.components[1]) = TEXT_CAT
    /\ HintsIn("basic", builder.query) = 0
    /\ jobs_created = 1

\* C22: variation diversity suffix: in a text job submitted with N > 1 variations
\* the payload of variation 0 carries no extra instruction and the payload of
\* variation i > 0 carries the variant at position i mod 4 of the rotation; in a
\* job submitted with N = 1 no payload carries a variant, whatever other
\* submissions are attempted while the job runs.
C22_VariationSuffix ==
    \A j \in Jobs :
        \A k \in 1..Len(workers[j].calls) :
            LET c == workers[j].calls[k] IN
            c.payload_mod =
                IF workers[j].num_variations > 1 /\ c.idx > 0
                THEN (c.idx % 4) + 1
                ELSE 0

\* the entries of a result list that record a remote failure or a cancellation
IsFailureEntry(e) ==
    e.kind \in {"api_error_remote", "api_error_not_initialized", "op_cancelled",
                "batch_cancelled"}

MarkedRight(rendered) ==
    rendered.kind = "batch" =>
        \A k \in 1..Len(rendered.parts) :
            /\ IsFailureEntry(rendered.parts[k].entry) => rendered.parts[k].failed
            /\ rendered.parts[k].entry.kind = "text" => ~rendered.parts[k].failed

\* C23: failed-versus-succeeded mark-up in a batch: when a multi-variation result
\* is rendered, every entry that records a remote failure or a cancellation (the
\* entry appended when cancellation is seen at the start of an iteration
\* included) is under the FAILED heading and every successfully generated text
\* is under the normal variation heading. Stated of what the output area shows
\* and of what _handle_gemini_results makes of each result list on its way to it.
C23_BatchMarkup ==
    /\ MarkedRight(output_text_edit)
    /\ \A k \in 1..Len(ui_events) :
         ui_events[k].sig = "result_ready" => MarkedRight(RenderResults(ui_events[k].arg))

\* C24: request shape invariant: every GeminiWorker the controller creates has
\* an attached image iff its operation type is vision, every vision worker is
\* created with a variation count of 1, and no vision worker is created while
\* the vision model is unavailable or no image is uploaded (the worker's image
\* is the image uploaded when it was created).
C24_RequestShape ==
    \A j \in Jobs :
        workers[j].pc # "none" =>
            /\ workers[j].operation_type \in {"text", "vision"}
            /\ workers[j].pil_image <=> (workers[j].operation_type = "vision")
            /\ workers[j].operation_type = "vision"
                 => /\ workers[j].num_variations = 1
                    /\ vision_model

\* C24 witness: the vision builder has created a worker for a video prompt from
\* the uploaded image
C24_Witness ==
    /\ builder.name = "vision" /\ builder.outcome = "triggered"
    /\ jobs_created = 1
    /\ workers[1].operation_type = "vision" /\ workers[1].pil_image
    /\ workers[1].context = "video" /\ workers[1].num_variations = 1

\* the entries of the library whose name equals name ignoring case
EntriesNamed(name) ==
    {k \in 1..Len(library.prompt_library_data) :
        Lower(library.prompt_library_data[k].name) = Lower(name)}

\* C25: favorites name uniqueness: starting from a library in which no two
\* entries have names equal ignoring case, after any sequence of saves (with
\* overwrite accepted or declined) and deletes no two entries have names equal
\* ignoring case, and an accepted overwrite leaves exactly one entry with that
\* name, holding the newly saved prompt.
C25_NamesUnique ==
    LET data == library.prompt_library_data IN
    /\ \A k \in 1..Len(data) : EntriesNamed(data[k].name) = {k}
    /\ library.last.op = "overwritten"
         => \E k \in 1..Len(data) :
               /\ EntriesNamed(library.last.name) = {k}
               /\ data[k] = LibraryItem(library.last.name, Strip(OutputPlainText))

\* C25 witness: saving "A" over the entry "a" was accepted; the library holds
\* "b" and then "A" with the prompt of the output area
C25_Witness ==
    /\ library.last.op = "overwritten"
    /\ OutputPlainText = A_FOX
    /\ library.prompt_library_data =
         <<LibraryItem(<<"b">>, TEXT_CAT), LibraryItem(<<"A">>, A_FOX)>>


\* the result lists a worker emitted with result_ready
ResultLists(w) ==
    {w.emitted[k].arg : k \in {i \in 1..Len(w.emitted) : w.emitted[i].sig = "result_ready"}}

\* the vision call of worker w returned (the job succeeded)
VisionSucceeded(w) ==
    /\ w.operation_type = "vision"
    /\ w.calls # <<>>
    /\ ~w.calls[1].raised

\* C26: a vision job that succeeds delivers a list of exactly one entry, and
\* that entry is never the empty string: when the sanitized model text is empty
\* the entry is the 'returned an empty description' placeholder, otherwise it is
\* the sanitized text.
C26_VisionSuccessIsOneEntry ==
    \A j \in Jobs :
        LET w == workers[j] IN
        VisionSucceeded(w) =>
            LET text == SanitizedVision[w.calls[1].raw] IN
            /\ Count(w.emitted, "result_ready") = 1
            /\ \A results \in ResultLists(w) :
                  /\ Len(results) = 1
                  /\ EntryText(results[1]) # <<>>
                  /\ results[1] = IF text = <<>>
                                  THEN ErrorEntry("empty_vision", w.context)
                                  ELSE TextEntry(text)

\* C26 witness: the vision model answered with nothing but a prefix phrase and
\* the job delivered the placeholder
C26_Witness ==
    \E j \in Jobs :
        /\ VisionSucceeded(workers[j])
        /\ workers[j].calls[1].raw = RAW_ONLY_PREFIX
        /\ ResultLists(workers[j]) = {<<ErrorEntry("empty_vision", workers[j].context)>>}


\* the variation indexes of the remote calls a text worker issued so far, in
\* the order of issue: the calls that came back, then the one in flight
IssuedIndexes(w) ==
    [k \in 1..Len(w.calls) |-> w.calls[k].idx]
        \o (IF w.pc = "call" THEN <<w.i>> ELSE <<>>)

\* from position m on, results holds cancellation entries only
CancelledTail(results, m) ==
    \A m2 \in m..Len(results) : IsCancelledEntry(results[m2])

\* C27: within one text job the remote calls are issued one at a time in
\* strictly increasing variation index 0, 1, 2, ..., each call returning before
\* the next is issued, and the entry at position i of the delivered list is the
\* outcome of variation i; cancellation only cuts a tail.
C27_CallsInIndexOrder ==
    \A j \in Jobs :
        LET w == workers[j]
            issued == IssuedIndexes(w)
        IN
        w.operation_type = "text" =>
            /\ \A k \in 1..Len(issued) : issued[k] = k - 1
            /\ w.pc = "call" => Len(w.calls) = w.i /\ Len(w.all_results) = w.i
            /\ \A results \in ResultLists(w) :
                  /\ \A k \in 1..Len(w.calls) :
                        /\ k <= Len(results)
                        /\ results[k] = CallOutcome(w.calls[k])
                  /\ \A m \in 1..Len(results) :
                        /\ results[m].kind = "api_error_not_initialized" => results[m].var = m
                        /\ IsCancelledEntry(results[m]) =>
                              /\ m > Len(w.calls)
                              /\ CancelledTail(results, m)

\* C27 witness: a text job whose first call raised and whose second call
\* returned delivered the error at position 0 and the text at position 1
C27_Witness ==
    \E j \in Jobs :
        /\ workers[j].operation_type = "text"
        /\ Len(workers[j].calls) = 2
        /\ workers[j].calls[1].raised /\ ~workers[j].calls[2].raised
        /\ ResultLists(workers[j]) =
             {<<ApiErrorEntry(1, "api_error_remote"), TextEntry(A_FOX)>>}


\* C28: handle/worker consistency: whenever a worker thread started by the
\* controller is still running, the controller's job handle (gemini_thread,
\* gemini_worker) is not None and refers to that thread and worker; the
\* thread-finished cleanup of an earlier job never clears the handle of a job
\* accepted later.
C28_HandleRefersToRunningJob ==
    \A j \in Jobs :
        isRunning(j) => (gemini_thread = j /\ gemini_worker = j)


\* job j was accepted and its thread-finished cleanup has not run
InFlight(j) == workers[j].pc \notin {"none", "deleted"}

\* a step that is a rejected submission: no worker is created, no delivery is
\* handled, the window stays open
RejectedSubmission ==
    /\ Busy
    /\ workers' = workers
    /\ ui_events' = ui_events
    /\ window' = window

\* C29: UI gating: the generation controls are disabled from the moment a
\* submission is accepted until that same job's thread-finished cleanup runs,
\* so the controls are enabled iff no accepted job is still in flight; a
\* rejected (busy) submission leaves the enabled state unchanged.
C29_ControlsGated ==
    /\ [](buttons_enabled <=> ~\E j \in Jobs : InFlight(j))
    /\ [][RejectedSubmission => (buttons_enabled' = buttons_enabled)]_vars


\* the counts a basic job may be submitted with
VariationCounts == 1..MAX_VARIATIONS

\* C30: variation counter bounds: starting from 1, after any sequence of
\* increases and decreases basic_batch_count stays within 1..MAX_VARIATIONS;
\* an increase at MAX_VARIATIONS and a decrease at 1 leave it unchanged (and
\* every other one moves it by one), so every basic job is submitted with a
\* variation count in that range.
C30_CounterInBounds ==
    /\ basic_batch_count \in VariationCounts
    /\ builder.name = "increase" =>
          basic_batch_count = IF builder.num_vars = MAX_VARIATIONS THEN MAX_VARIATIONS
                              ELSE builder.num_vars + 1
    /\ builder.name = "decrease" =>
          basic_batch_count = IF builder.num_vars = 1 THEN 1
                              ELSE builder.num_vars - 1
    /\ (builder.name = "basic" /\ builder.outcome = "triggered") =>
          builder.num_vars \in VariationCounts
    /\ \A j \in Jobs :
          workers[j].pc # "none" =>
              /\ workers[j].num_variations \in VariationCounts
              /\ num_variations_for_worker \in VariationCounts

\* C30 witness: a basic job was submitted with MAX_VARIATIONS variations and
\* the increase button's handler then ran at MAX_VARIATIONS
C30_Witness ==
    /\ workers[1].num_variations = MAX_VARIATIONS
    /\ builder.name = "increase"
    /\ builder.num_vars = MAX_VARIATIONS
    /\ basic_batch_count = MAX_VARIATIONS

====
